---- MODULE Spec2Model ----
(***************************************************************************)
(* A model of the modular-arithmetic core of evmone: the Montgomery        *)
(* arithmetic of evmmax::ModArith, the variable-width modexp and the       *)
(* short-Weierstrass curve operations of evmmax::ecc.                      *)
(*                                                                         *)
(* The machine word of the program is uint64_t.  The model keeps every     *)
(* word-level step of the code (carries, truncations, wrap-around) and     *)
(* scales the word down to WordBits bits, so that the whole word range is  *)
(* enumerated.  A multi-word integer UintT is NumWords words.              *)
(***************************************************************************)
EXTENDS Integers, Sequences, FiniteSets, TLC

VARIABLES
    marith,   \* the ModArith object under test: mod_, r_squared_, mod_inv_
    mcall,    \* the last call made on marith: operation, arguments, result
    xcall,    \* the last call of crypto::modexp: inputs and output bytes
    ecall,    \* the last call of an evmmax::ecc routine: curve, inputs, result
    scall     \* the last call of a routine of the state library or the interpreter

vars == <<marith, mcall, xcall, ecall, scall>>

\* No call is in progress.
NoCall == [op |-> "none"]

\* No ModArith object has been constructed.
NoArith == [mod_ |-> 0, r_squared_ |-> 0, mod_inv_ |-> 0, num_words |-> 0]

(***************************************************************************)
(* Words and multi-word integers (intx::uint<N>)                           *)
(***************************************************************************)

\* Width of the machine word in bits (uint64_t in the program, scaled down).
WordBits == 2

\* Number of words of UintT (UintT::num_words).
NumWords == 2

\* Number of Newton-Raphson steps of inv_mod: countr_zero(sizeof(uint64_t) * 8).
ITERATIONS == 6

WordBase == 2 ^ WordBits

\* 2^(number of bits of an S-word integer).
UintBase(S) == WordBase ^ S

\* x[j]: the j-th least significant word of x.
WordOf(x, j) == (x \div (WordBase ^ j)) % WordBase

\* Wrap an integer (possibly negative, above -WordBase^2) to one word.
WrapWord(v) == (v + WordBase * WordBase) % WordBase

\* Wrap an integer (possibly negative, above -UintBase(S)) to S words.
WrapUint(v, S) == (v + UintBase(S)) % UintBase(S)

Min(a, b) == IF a < b THEN a ELSE b

(***************************************************************************)
(* evmmax::inv_mod and the ModArith constructor                            *)
(***************************************************************************)

RECURSIVE inv_mod_loop(_, _, _)
inv_mod_loop(a, inv, i) ==
    IF i = ITERATIONS THEN inv
    ELSE inv_mod_loop(a, (inv * WrapWord(2 - ((a * inv) % WordBase))) % WordBase, i + 1)

\* inv * a = 1 mod 2^WordBits, for odd a.
inv_mod(a) == inv_mod_loop(a, 1, 0)

\* A constructor that stores R % mod where R^2 % mod belongs.
compute_r_squared_single(mod, S) == UintBase(S) % mod

\* R^2 % mod with R = 2^num_bits.
compute_r_squared(mod, S) == (UintBase(S) * UintBase(S)) % mod

\* N' = -mod[0]^-1 mod 2^WordBits.
compute_mont_mod_inv(mod) == WrapWord(0 - inv_mod(WordOf(mod, 0)))

\* ModArith(mod): the constructor computes the two derived fields.
ModArith(mod, S) ==
    [mod_ |-> mod,
     r_squared_ |-> compute_r_squared(mod, S),
     mod_inv_ |-> compute_mont_mod_inv(mod),
     num_words |-> S]

(***************************************************************************)
(* ModArith::mul, the CIOS Montgomery multiplication                       *)
(***************************************************************************)

\* First inner loop: t[j] += x[j] * y[i] with carry c, for j in [0, S).
RECURSIVE mul_acc(_, _, _, _, _, _)
mul_acc(t, x, yi, j, c, S) ==
    IF j = S THEN <<t, c>>
    ELSE LET p == WordOf(x, j) * yi + t[j + 1] + c
         IN mul_acc([t EXCEPT ![j + 1] = p % WordBase], x, yi, j + 1, p \div WordBase, S)

\* Second inner loop: t[j-1] = lo(t[j] + m * mod[j] + c), for j in [1, S).
RECURSIVE mul_red(_, _, _, _, _, _)
mul_red(t, m, mod, j, c, S) ==
    IF j = S THEN <<t, c>>
    ELSE LET p == m * WordOf(mod, j) + t[j + 1] + c
         IN mul_red([t EXCEPT ![j] = p % WordBase], m, mod, j + 1, p \div WordBase, S)

\* One iteration of the outer loop for the word y[i].  The accumulator t is
\* a sequence of S + 1 words: word j of the code is element j + 1.
mul_step(M, t, x, yi) ==
    LET S    == M.num_words
        a    == mul_acc(t, x, yi, 0, 0, S)
        t1   == a[1]
        tmp1 == t1[S + 1] + a[2]
        t2   == [t1 EXCEPT ![S + 1] = tmp1 % WordBase]
        d    == tmp1 \div WordBase
        m    == (t2[1] * M.mod_inv_) % WordBase
        c0   == (m * WordOf(M.mod_, 0) + t2[1]) \div WordBase
        r    == mul_red(t2, m, M.mod_, 1, c0, S)
        t3   == r[1]
        tmp2 == t3[S + 1] + r[2]
    IN [t3 EXCEPT ![S] = tmp2 % WordBase,
                  ![S + 1] = (d + (tmp2 \div WordBase)) % WordBase]

RECURSIVE mul_loop(_, _, _, _, _)
mul_loop(M, t, x, y, i) ==
    IF i = M.num_words THEN t
    ELSE mul_loop(M, mul_step(M, t, x, WordOf(y, i)), x, y, i + 1)

\* A span of n zero words.
RECURSIVE zero_words(_)
zero_words(n) == IF n = 0 THEN <<>> ELSE <<0>> \o zero_words(n - 1)

\* The integer held by a span of words.
RECURSIVE span_value(_)
span_value(w) ==
    IF Len(w) = 0 THEN 0 ELSE w[1] + WordBase * span_value(Tail(w))

\* A mul without the final conditional subtraction.
mul_final_unreduced(M, tv) == tv % UintBase(M.num_words)

\* The final conditional subtraction and the truncating cast to UintT.
mul_final(M, tv) ==
    (IF tv >= M.mod_ THEN tv - M.mod_ ELSE tv) % UintBase(M.num_words)

\* The accumulator t after the S outer iterations, as a value of S+1 words.
mul_cios(M, x, y) ==
    LET S == M.num_words
    IN span_value(mul_loop(M, zero_words(S + 1), x, y, 0))

mul(M, x, y) == mul_final(M, mul_cios(M, x, y))

to_mont(M, x) == mul(M, x, M.r_squared_)

from_mont(M, x) == mul(M, x, 1)

(***************************************************************************)
(* ModArith::add, ModArith::sub                                            *)
(***************************************************************************)

\* An add that selects the sum by the borrow of the subtraction alone.
add_ignoring_carry(M, x, y) ==
    LET s == (x + y) % UintBase(M.num_words)
    IN IF s < M.mod_ THEN s ELSE WrapUint(s - M.mod_, M.num_words)

add(M, x, y) ==
    LET B     == UintBase(M.num_words)
        s     == (x + y) % B
        carry == (x + y) >= B
        d     == WrapUint(s - M.mod_, M.num_words)
        less  == s < M.mod_
    IN IF ~carry /\ less THEN s ELSE d

sub(M, x, y) ==
    LET d    == WrapUint(x - y, M.num_words)
        less == x < y
        s    == (d + M.mod_) % UintBase(M.num_words)
    IN IF less THEN s ELSE d

(***************************************************************************)
(* ModArith::inv, the binary extended Euclidean algorithm                  *)
(***************************************************************************)

\* A loop body that halves a only after a subtraction.
inv_step_halving_odd_only(M, st) ==
    LET inv2 == (M.mod_ \div 2) + 1
        odd  == st.a % 2 = 1
        less == st.a < st.b
        a1   == IF odd THEN (IF less THEN st.b - st.a ELSE st.a - st.b) ELSE st.a
        b1   == IF odd /\ less THEN st.a ELSE st.b
        us   == IF odd /\ less THEN st.v ELSE st.u
        v1   == IF odd /\ less THEN st.u ELSE st.v
        u1   == IF odd THEN sub(M, us, v1) ELSE us
        u2   == u1 \div 2
    IN [a |-> IF odd THEN a1 \div 2 ELSE a1,
        b |-> b1,
        u |-> IF u1 % 2 = 1 THEN (u2 + inv2) % UintBase(M.num_words) ELSE u2,
        v |-> v1]

\* The body of `while (a != 0)` on the loop state (a, b, u, v).
inv_step(M, st) ==
    LET inv2 == (M.mod_ \div 2) + 1
        odd  == st.a % 2 = 1
        less == st.a < st.b
        a1   == IF odd THEN (IF less THEN st.b - st.a ELSE st.a - st.b) ELSE st.a
        b1   == IF odd /\ less THEN st.a ELSE st.b
        us   == IF odd /\ less THEN st.v ELSE st.u
        v1   == IF odd /\ less THEN st.u ELSE st.v
        u1   == IF odd THEN sub(M, us, v1) ELSE us
        u2   == u1 \div 2
    IN [a |-> a1 \div 2,
        b |-> b1,
        u |-> IF u1 % 2 = 1 THEN (u2 + inv2) % UintBase(M.num_words) ELSE u2,
        v |-> v1]

RECURSIVE inv_loop(_, _)
inv_loop(M, st) == IF st.a = 0 THEN st ELSE inv_loop(M, inv_step(M, st))

\* An inv whose Bezout coefficient u starts at 1, as for plain operands.
inv_plain_start(M, x) ==
    LET fin == inv_loop(M, [a |-> x, b |-> M.mod_, u |-> 1, v |-> 0])
    IN IF fin.b # 1 THEN 0 ELSE fin.v

\* An inv that returns v without looking at the gcd left in b.
inv_unchecked(M, x) ==
    inv_loop(M, [a |-> x, b |-> M.mod_, u |-> M.r_squared_, v |-> 0]).v

inv(M, x) ==
    LET fin == inv_loop(M, [a |-> x, b |-> M.mod_, u |-> M.r_squared_, v |-> 0])
    IN IF fin.b # 1 THEN 0 ELSE fin.v

(***************************************************************************)
(* Word spans (std::span<uint64_t>): sequences of words, least significant *)
(* word first.  Word j of the code is element j + 1 of the sequence.       *)
(***************************************************************************)

\* as_words(x): the S words of the integer x.
RECURSIVE as_words(_, _)
as_words(x, S) ==
    IF S = 0 THEN <<>> ELSE <<x % WordBase>> \o as_words(x \div WordBase, S - 1)

\* x.subspan(off, cnt).
subspan(x, off, cnt) == SubSeq(x, off + 1, off + cnt)

\* The span x with the words from offset off on replaced by those of r.
span_store(x, off, r) ==
    SubSeq(x, 1, off) \o r \o SubSeq(x, off + Len(r) + 1, Len(x))

\* add(x, y): x[] += y[], truncated to the size of x.
RECURSIVE span_add(_, _, _, _)
span_add(x, y, i, carry) ==
    IF i > Len(x) THEN x
    ELSE LET s == x[i] + y[i] + carry
         IN span_add([x EXCEPT ![i] = s % WordBase], y, i + 1, s \div WordBase)

\* sub(x, y): x[] -= y[], truncated to the size of x.
RECURSIVE span_sub(_, _, _, _)
span_sub(x, y, i, borrow) ==
    IF i > Len(x) THEN x
    ELSE LET d == x[i] - y[i] - borrow
         IN span_sub([x EXCEPT ![i] = WrapWord(d)], y, i + 1, IF d < 0 THEN 1 ELSE 0)

\* addmul(r, p, x, y, c): r[] = p[] + x[] * y (+ c); yields <<r, final carry>>.
RECURSIVE addmul(_, _, _, _, _, _)
addmul(r, p, x, y, c, i) ==
    IF i > Len(x) THEN <<r, c>>
    ELSE LET t == x[i] * y + p[i] + c
         IN addmul([r EXCEPT ![i] = t % WordBase], p, x, y, t \div WordBase, i + 1)

\* The loop of mul over the words of the shorter operand y.
RECURSIVE span_mul_loop(_, _, _, _)
span_mul_loop(r, x, y, j) ==
    IF j = Len(y) THEN r
    ELSE LET rj == subspan(r, j, Len(r) - j)
             am == addmul(rj, rj, subspan(x, 0, Len(x) - j), y[j + 1], 0, 1)
         IN span_mul_loop(span_store(r, j, am[1]), x, y, j + 1)

\* mul(r, x, y): r[] = x[] * y[], truncated to max(|x|, |y|) words.
span_mul(x, y) ==
    LET xl == IF Len(x) < Len(y) THEN y ELSE x
        ys == IF Len(x) < Len(y) THEN x ELSE y
    IN span_mul_loop(zero_words(Len(xl)), xl, ys, 0)

\* neg_add2(x): x[] = 2 - x[].
RECURSIVE neg_add2_loop(_, _, _)
neg_add2_loop(x, i, c) ==
    IF i > Len(x) THEN x
    ELSE LET d == 0 - x[i] - c
         IN neg_add2_loop([x EXCEPT ![i] = WrapWord(d)], i + 1, IF d < 0 THEN 1 ELSE 0)

neg_add2(x) ==
    LET d == 2 - x[1]
    IN neg_add2_loop([x EXCEPT ![1] = WrapWord(d)], 2, IF d < 0 THEN 1 ELSE 0)

(***************************************************************************)
(* Exponent: a view of the big-endian bytes of the exponent.  A byte of    *)
(* the model is as wide as its word.                                       *)
(***************************************************************************)

ByteBits == WordBits

ByteBase == 2 ^ ByteBits

Bytes == 0 .. ByteBase - 1

\* std::bit_width of a byte.
RECURSIVE bit_width(_)
bit_width(b) == IF b = 0 THEN 0 ELSE 1 + bit_width(b \div 2)

\* The bytes from the first non-zero byte on.
RECURSIVE trim_zeros(_)
trim_zeros(bytes) ==
    IF Len(bytes) = 0 \/ bytes[1] # 0 THEN bytes ELSE trim_zeros(Tail(bytes))

\* Exponent::Exponent(bytes).
Exponent(bytes) ==
    LET trimmed_bytes == trim_zeros(bytes)
    IN [data_ |-> trimmed_bytes,
        bit_width_ |-> IF Len(trimmed_bytes) = 0 THEN 0
                       ELSE bit_width(trimmed_bytes[1]) + (Len(trimmed_bytes) - 1) * ByteBits]

\* Exponent::operator[](index).
exp_bit(e, index) ==
    LET exp_size   == (e.bit_width_ + ByteBits - 1) \div ByteBits
        byte_index == index \div ByteBits
        byte       == e.data_[(exp_size - 1 - byte_index) + 1]
        bit_index  == index % ByteBits
    IN (byte \div (2 ^ bit_index)) % 2 = 1

(***************************************************************************)
(* modexp for an odd modulus: Almost Montgomery Multiplication             *)
(***************************************************************************)

\* One iteration of the loop of mul_amm on st = [t, t_carry] for the word yi.
mul_amm_step(st, x, yi, mod, mod_inv, S) ==
    LET a1   == addmul(st.t, st.t, x, yi, 0, 1)
        t1   == a1[1]
        s1   == a1[2] + st.t_carry
        sum1 == s1 % WordBase
        d1   == s1 \div WordBase
        m    == (t1[1] * mod_inv) % WordBase
        c2   == (mod[1] * m + t1[1]) \div WordBase
        a3   == addmul(subspan(t1, 0, S - 1), subspan(t1, 1, S - 1),
                       subspan(mod, 1, S - 1), m, c2, 1)
        s2   == sum1 + a3[2]
        sum2 == s2 % WordBase
        d2   == s2 \div WordBase
    IN [t |-> [span_store(t1, 0, a3[1]) EXCEPT ![S] = sum2],
        t_carry |-> IF d1 = 1 \/ d2 = 1 THEN 1 ELSE 0]

RECURSIVE mul_amm_loop(_, _, _, _, _, _, _)
mul_amm_loop(st, x, y, mod, mod_inv, S, i) ==
    IF i = S THEN st
    ELSE mul_amm_loop(mul_amm_step(st, x, y[i + 1], mod, mod_inv, S),
                      x, y, mod, mod_inv, S, i + 1)

\* The final `if (t_carry) t_value -= mod`.
mul_amm_final(st, mod, S) ==
    IF st.t_carry = 1 THEN WrapUint(span_value(st.t) - mod, S) ELSE span_value(st.t)

mul_amm(x, y, mod, mod_inv, S) ==
    mul_amm_final(
        mul_amm_loop([t |-> zero_words(S), t_carry |-> 0],
                     as_words(x, S), as_words(y, S), as_words(mod, S), mod_inv, S, 0),
        mod, S)

\* The square-and-multiply loop of modexp_odd, i from bit_width - 1 down to 1.
RECURSIVE modexp_odd_loop(_, _, _, _, _, _, _)
modexp_odd_loop(ret_mont, base_mont, exp, mod, mod_inv, S, i) ==
    IF i = 0 THEN ret_mont
    ELSE LET sq == mul_amm(ret_mont, ret_mont, mod, mod_inv, S)
             r  == IF exp_bit(exp, i - 1) THEN mul_amm(sq, base_mont, mod, mod_inv, S) ELSE sq
         IN CASE r \in Nat -> modexp_odd_loop(r, base_mont, exp, mod, mod_inv, S, i - 1)

\* A reduction that never subtracts.
modexp_odd_reduce_never(ret, mod) == ret

\* `if (ret >= mod) ret -= mod`.
modexp_odd_reduce(ret, mod) == IF ret >= mod THEN ret - mod ELSE ret

\* The last steps of modexp_odd: leave Montgomery form, reduce once.
modexp_odd_final(ret_mont, mod, mod_inv, S) ==
    LET ret == mul_amm(ret_mont, 1, mod, mod_inv, S)
    IN IF ret >= mod THEN ret - mod ELSE ret

modexp_odd(base, exp, mod, S) ==
    LET mod_inv   == compute_mont_mod_inv(mod)
        base_mont == (base * UintBase(S)) % mod
        ret_mont  == modexp_odd_loop(base_mont, base_mont, exp, mod, mod_inv, S,
                                     exp.bit_width_ - 1)
    IN modexp_odd_final(ret_mont, mod, mod_inv, S)

(***************************************************************************)
(* modexp for a power-of-two modulus and for an even modulus               *)
(***************************************************************************)

\* Number of words holding k bits.
num_pow2_words(k) == (k + WordBits - 1) \div WordBits

\* mask_pow2(x, k): trim the top word of x[] to k bits.
mask_pow2(x, k) ==
    LET rem == k % WordBits
    IN IF rem # 0 THEN [x EXCEPT ![Len(x)] = x[Len(x)] % (2 ^ rem)] ELSE x

\* The square-and-multiply loop of modexp_pow2 on the k-bit spans.
RECURSIVE modexp_pow2_loop(_, _, _, _)
modexp_pow2_loop(r_k, base_k, exp, i) ==
    IF i = 0 THEN r_k
    ELSE LET sq == span_mul(r_k, r_k)
             r  == IF exp_bit(exp, i - 1) THEN span_mul(sq, base_k) ELSE sq
         IN CASE Len(r) = Len(base_k) -> modexp_pow2_loop(r, base_k, exp, i - 1)

\* modexp_pow2(r, base, exp, k): the low words of r[] get base^exp % 2^k,
\* the other words of r[] are left as they are.
modexp_pow2(r, base, exp, k) ==
    LET n      == num_pow2_words(k)
        base_k == subspan(base, 0, n)
        r_k    == modexp_pow2_loop(base_k, base_k, exp, exp.bit_width_ - 1)
    IN span_store(r, 0, mask_pow2(r_k, k))

\* The Newton-Raphson loop of modinv_pow2: i correct words become min(2i, |r|).
RECURSIVE modinv_pow2_loop(_, _, _)
modinv_pow2_loop(r, x, i) ==
    IF i >= Len(r) THEN r
    ELSE LET n  == Min(i * 2, Len(r))
             t1 == neg_add2(span_mul(subspan(x, 0, n), subspan(r, 0, i)))
             t2 == span_mul(t1, subspan(r, 0, i))
         IN modinv_pow2_loop(span_store(r, 0, t2), x, i * 2)

\* A modinv_pow2 that leaves the one-word seed in r[].
modinv_pow2_seed_only(rsize, x) == <<inv_mod(x[1])>> \o zero_words(rsize - 1)

\* modinv_pow2(r, x): r[] = x[]^-1 modulo 2^(bits of r), r of rsize words.
modinv_pow2(rsize, x) ==
    modinv_pow2_loop(<<inv_mod(x[1])>> \o zero_words(rsize - 1), x, 1)

\* A modexp_even that does not trim y to k bits.
modexp_even_unmasked(base, exp, mod_odd, k, S) ==
    LET x1          == modexp_odd(base, exp, mod_odd, S)
        n           == num_pow2_words(k)
        r0          == modexp_pow2(zero_words(S), as_words(base, S), exp, k)
        mod_odd_inv == modinv_pow2(n, as_words(mod_odd, S))
        x2          == span_sub(subspan(r0, 0, n), subspan(as_words(x1, S), 0, n), 1, 0)
        y           == span_mul(x2, mod_odd_inv)
        r           == span_mul(y, as_words(mod_odd, S))
    IN span_value(span_add(r, as_words(x1, S), 1, 0))

\* modexp_even: base^exp % (mod_odd * 2^k) by the CRT of the two residues.
modexp_even(base, exp, mod_odd, k, S) ==
    LET x1          == modexp_odd(base, exp, mod_odd, S)
        n           == num_pow2_words(k)
        r0          == modexp_pow2(zero_words(S), as_words(base, S), exp, k)
        mod_odd_inv == modinv_pow2(n, as_words(mod_odd, S))
        x2          == span_sub(subspan(r0, 0, n), subspan(as_words(x1, S), 0, n), 1, 0)
        y           == mask_pow2(span_mul(x2, mod_odd_inv), k)
        r           == span_mul(y, as_words(mod_odd, S))
    IN span_value(span_add(r, as_words(x1, S), 1, 0))

(***************************************************************************)
(* modexp_impl and crypto::modexp                                          *)
(***************************************************************************)

\* intx::be::load: the integer of a big-endian byte string.
RECURSIVE be_load(_)
be_load(bytes) ==
    IF Len(bytes) = 0 THEN 0
    ELSE bytes[Len(bytes)] + ByteBase * be_load(SubSeq(bytes, 1, Len(bytes) - 1))

\* intx::be::trunc: the low `size` bytes of x, big-endian.
RECURSIVE be_trunc(_, _)
be_trunc(size, x) ==
    IF size = 0 THEN <<>> ELSE be_trunc(size - 1, x \div ByteBase) \o <<x % ByteBase>>

\* intx::ctz of a non-zero integer.
RECURSIVE ctz(_)
ctz(x) == IF x % 2 = 1 THEN 0 ELSE 1 + ctz(x \div 2)

\* The case of the dispatch of modexp_impl that the inputs fall in.
modexp_case(exp, mod) ==
    IF exp.bit_width_ = 0 THEN "exp_zero"
    ELSE IF ctz(mod) = 0 THEN "odd"
    ELSE IF mod \div (2 ^ ctz(mod)) = 1 THEN "pow2"
    ELSE "even"

\* A modexp_impl whose result for a zero exponent is 1 whatever the modulus.
modexp_result_one(base, exp, mod, S) ==
    IF exp.bit_width_ = 0 THEN 1
    ELSE IF ctz(mod) = 0 THEN modexp_odd(base, exp, mod, S)
    ELSE IF mod \div (2 ^ ctz(mod)) = 1
         THEN span_value(modexp_pow2(zero_words(S), as_words(base, S), exp, ctz(mod)))
    ELSE modexp_even(base, exp, mod \div (2 ^ ctz(mod)), ctz(mod), S)

\* The value of `result` in modexp_impl<Size>, Size being S words.
modexp_result(base, exp, mod, S) ==
    IF exp.bit_width_ = 0 THEN (IF mod # 1 THEN 1 ELSE 0)
    ELSE IF ctz(mod) = 0 THEN modexp_odd(base, exp, mod, S)
    ELSE IF mod \div (2 ^ ctz(mod)) = 1
         THEN span_value(modexp_pow2(zero_words(S), as_words(base, S), exp, ctz(mod)))
    ELSE modexp_even(base, exp, mod \div (2 ^ ctz(mod)), ctz(mod), S)

modexp_impl(base_bytes, exp, mod_bytes, S) ==
    be_trunc(Len(mod_bytes), modexp_result(be_load(base_bytes), exp, be_load(mod_bytes), S))

\* crypto::modexp on inputs that fit the narrowest working width.
modexp(base, exp, mod) == modexp_impl(base, Exponent(exp), mod, NumWords)

(***************************************************************************)
(* Elliptic curves (evmmax::ecc): field elements, points, addition,        *)
(* doubling and scalar multiplication.                                     *)
(***************************************************************************)

\* A Curve type: the parameters and the ModArith object of the field.
Curve(prime, a, b, order) ==
    [FIELD_PRIME |-> prime, A |-> a, B |-> b, ORDER |-> order,
     Fp |-> ModArith(prime, NumWords)]

\* The curves y^2 = x^3 + A x + B instantiated: small curves of prime order
\* that fit the integer type, with A = 0 (as secp256k1, bn254) and with
\* A = FIELD_PRIME - 3 (as secp256r1); the field prime fills the integer
\* type or leaves its top bit clear.
Curves ==
    {Curve(13, 0, 7, 7), Curve(7, 0, 3, 13),
     Curve(7, 4, 6, 11), Curve(11, 8, 10, 7)}

\* FieldElement{v}: the value in Montgomery form.
FE(C, v) == to_mont(C.Fp, v)

\* FieldElement::value().
fe_value(C, a) ==
    CASE a < C.FIELD_PRIME -> from_mont(C.Fp, a)

\* The FieldElement operators *, +, -, unary -, 1 / a and a / b, on values
\* below the field prime.
fe_mul(C, a, b) ==
    CASE a < C.FIELD_PRIME /\ b < C.FIELD_PRIME -> mul(C.Fp, a, b)

fe_add(C, a, b) ==
    CASE a < C.FIELD_PRIME /\ b < C.FIELD_PRIME -> add(C.Fp, a, b)

fe_sub(C, a, b) ==
    CASE a < C.FIELD_PRIME /\ b < C.FIELD_PRIME -> sub(C.Fp, a, b)

fe_neg(C, a) ==
    CASE a < C.FIELD_PRIME -> sub(C.Fp, 0, a)

fe_inv(C, a) ==
    CASE a < C.FIELD_PRIME -> inv(C.Fp, a)

fe_div(C, a, b) ==
    CASE a < C.FIELD_PRIME /\ b < C.FIELD_PRIME -> mul(C.Fp, a, inv(C.Fp, b))

\* AffinePoint{x, y}; AffinePoint{} is the point at infinity.
AffinePoint(x, y) == [x |-> x, y |-> y]

AffineInfinity == AffinePoint(0, 0)

\* ProjPoint{x, y, z}; ProjPoint{} has y = FE{1} and z = 0.
ProjPoint(x, y, z) == [x |-> x, y |-> y, z |-> z]

ProjInfinity(C) == ProjPoint(0, FE(C, 1), 0)

\* A ProjPoint(AffinePoint) whose Z is the plain 1, not its Montgomery form.
proj_of_affine_plain_one(C, p) == ProjPoint(p.x, p.y, 1)

\* ProjPoint(AffinePoint).
proj_of_affine(C, p) == ProjPoint(p.x, p.y, FE(C, 1))

\* operator-(ProjPoint).
proj_neg(C, p) == ProjPoint(p.x, fe_neg(C, p.y), p.z)

\* to_affine once z_inv = 1 / p.z is known.
to_affine_scaled(C, p, z_inv) ==
    LET zz_inv  == fe_mul(C, z_inv, z_inv)
        zzz_inv == fe_mul(C, zz_inv, z_inv)
    IN AffinePoint(fe_mul(C, p.x, zz_inv), fe_mul(C, p.y, zzz_inv))

to_affine(C, p) == to_affine_scaled(C, p, fe_inv(C, p.z))

\* dbl for Curve::A == 0 ("dbl-2009-l"), in four blocks of statements; each
\* block sees the values of the blocks before it in the record s.
dbl_a0_squares(C, p) ==
    [xx |-> fe_mul(C, p.x, p.x),
     yy |-> fe_mul(C, p.y, p.y)]

dbl_a0_t1(C, p, s) ==
    LET t0 == fe_add(C, p.x, s.yy)
    IN s @@ [yyyy |-> fe_mul(C, s.yy, s.yy),
             t1   |-> fe_mul(C, t0, t0),
             e    |-> fe_add(C, fe_add(C, s.xx, s.xx), s.xx)]

dbl_a0_d(C, s) ==
    LET t2 == fe_sub(C, s.t1, s.xx)
        t3 == fe_sub(C, t2, s.yyyy)
    IN s @@ [d |-> fe_add(C, t3, t3),
             f |-> fe_mul(C, s.e, s.e)]

dbl_a0_result(C, p, s) ==
    LET yyyy == s.yyyy
        t4   == fe_add(C, s.d, s.d)
        x3   == fe_sub(C, s.f, t4)
        t6   == fe_sub(C, s.d, x3)
        y2   == fe_add(C, yyyy, yyyy)
        y4   == fe_add(C, fe_add(C, y2, yyyy), yyyy)
        y6   == fe_add(C, fe_add(C, y4, yyyy), yyyy)
        t8   == fe_add(C, fe_add(C, y6, yyyy), yyyy)
        t9   == fe_mul(C, s.e, t6)
        y3   == fe_sub(C, t9, t8)
        t10  == fe_mul(C, p.y, p.z)
        z3   == fe_add(C, t10, t10)
    IN ProjPoint(x3, y3, z3)

dbl_a0(C, p) ==
    dbl_a0_result(C, p, dbl_a0_d(C, dbl_a0_t1(C, p, dbl_a0_squares(C, p))))

\* dbl for Curve::A == Curve::FIELD_PRIME - 3 ("dbl-2001-b"), in blocks.
dbl_a3_squares(C, p) ==
    [zz |-> fe_mul(C, p.z, p.z),
     yy |-> fe_mul(C, p.y, p.y)]

dbl_a3_alpha(C, p, s) ==
    LET t0 == fe_sub(C, p.x, s.zz)
        t1 == fe_add(C, p.x, s.zz)
        t5 == fe_add(C, p.y, p.z)
    IN s @@ [xyy |-> fe_mul(C, p.x, s.yy),
             t2  |-> fe_mul(C, t0, t1),
             t6  |-> fe_mul(C, t5, t5),
             t10 |-> fe_mul(C, s.yy, s.yy)]

dbl_a3_t3(C, s) ==
    LET alpha == fe_add(C, fe_add(C, s.t2, s.t2), s.t2)
    IN s @@ [alpha |-> alpha,
             t3    |-> fe_mul(C, alpha, alpha)]

dbl_a3_result(C, s) ==
    LET xyy == s.xyy
        t10 == s.t10
        x2  == fe_add(C, xyy, xyy)
        t8  == fe_add(C, fe_add(C, x2, xyy), xyy)
        x6  == fe_add(C, fe_add(C, t8, xyy), xyy)
        t4  == fe_add(C, fe_add(C, x6, xyy), xyy)
        x3  == fe_sub(C, s.t3, t4)
        t7  == fe_sub(C, s.t6, s.yy)
        z3  == fe_sub(C, t7, s.zz)
        t9  == fe_sub(C, t8, x3)
        q2  == fe_add(C, t10, t10)
        q4  == fe_add(C, fe_add(C, q2, t10), t10)
        q6  == fe_add(C, fe_add(C, q4, t10), t10)
        t11 == fe_add(C, fe_add(C, q6, t10), t10)
        t12 == fe_mul(C, s.alpha, t9)
        y3  == fe_sub(C, t12, t11)
    IN ProjPoint(x3, y3, z3)

dbl_a3(C, p) ==
    dbl_a3_result(C, dbl_a3_t3(C, dbl_a3_alpha(C, p, dbl_a3_squares(C, p))))

\* dbl: the formula is chosen at compile time by Curve::A; no other value
\* of A compiles.
dbl(C, p) == IF C.A = 0 THEN dbl_a0(C, p) ELSE dbl_a3(C, p)

\* A tangent slope numerator that leaves the curve's A out.
tangent_dy_no_a(C, xx) ==
    fe_add(C, fe_add(C, xx, xx), xx)

\* The numerator dy of the tangent slope in add(AffinePoint, AffinePoint),
\* xx being x1 * x1.
tangent_dy(C, xx) ==
    LET dy == fe_add(C, fe_add(C, xx, xx), xx)
    IN IF C.A # 0 THEN fe_add(C, dy, FE(C, C.A)) ELSE dy

\* The last three statements of add(AffinePoint, AffinePoint): the third
\* point of the line through (x1, y1) and (x2, ...) with the slope given.
add_affine_line(C, x1, y1, x2, slope) ==
    LET xr == fe_sub(C, fe_sub(C, fe_mul(C, slope, slope), x1), x2)
        yr == fe_sub(C, fe_mul(C, slope, fe_sub(C, x1, xr)), y1)
    IN AffinePoint(xr, yr)

\* An affine addition that takes the tangent whenever the points share
\* their x, opposite points included.
add_affine_no_opposite(C, p, q) ==
    IF p = AffineInfinity THEN q
    ELSE IF q = AffineInfinity THEN p
    ELSE LET dx == fe_sub(C, q.x, p.x)
             dy == fe_sub(C, q.y, p.y)
         IN IF dx = 0
            THEN add_affine_line(C, p.x, p.y, q.x,
                     fe_div(C, tangent_dy(C, fe_mul(C, p.x, p.x)), fe_add(C, p.y, p.y)))
            ELSE add_affine_line(C, p.x, p.y, q.x, fe_div(C, dy, dx))

\* add(AffinePoint, AffinePoint).
add_affine(C, p, q) ==
    IF p = AffineInfinity THEN q
    ELSE IF q = AffineInfinity THEN p
    ELSE LET dx == fe_sub(C, q.x, p.x)
             dy == fe_sub(C, q.y, p.y)
         IN IF dx = 0 /\ dy # 0 THEN AffineInfinity
            ELSE IF dx = 0
            THEN add_affine_line(C, p.x, p.y, q.x,
                     fe_div(C, tangent_dy(C, fe_mul(C, p.x, p.x)), fe_add(C, p.y, p.y)))
            ELSE add_affine_line(C, p.x, p.y, q.x, fe_div(C, dy, dx))

\* add(ProjPoint, ProjPoint) up to h and r, in blocks of statements.
add_jacobian_squares(C, p, q) ==
    [z1z1 |-> fe_mul(C, p.z, p.z),
     z2z2 |-> fe_mul(C, q.z, q.z)]

add_jacobian_us(C, p, q, s) ==
    [u1 |-> fe_mul(C, p.x, s.z2z2),
     u2 |-> fe_mul(C, q.x, s.z1z1),
     s1 |-> fe_mul(C, p.y, fe_mul(C, q.z, s.z2z2)),
     s2 |-> fe_mul(C, q.y, fe_mul(C, p.z, s.z1z1))]

add_jacobian_diff(C, s) ==
    [u1 |-> s.u1, s1 |-> s.s1, h |-> fe_sub(C, s.u2, s.u1), r |-> fe_sub(C, s.s2, s.s1)]

\* u1, s1 and the differences h = u2 - u1, r = s2 - s1.
add_jacobian_hr(C, p, q) ==
    add_jacobian_diff(C, add_jacobian_us(C, p, q, add_jacobian_squares(C, p, q)))

\* assert(r != 0 || h == 0) of add(ProjPoint, ProjPoint): TRUE when the
\* assertion is not reached or holds.
add_jacobian_assert(C, p, q) ==
    \/ p.z = 0
    \/ q.z = 0
    \/ add_jacobian_hr(C, p, q).r # 0
    \/ add_jacobian_hr(C, p, q).h = 0

\* The statements of add(ProjPoint, ProjPoint) after the doubling check.
add_jacobian_hh(C, p, q, d) ==
    d @@ [hh |-> fe_mul(C, d.h, d.h),
          t2 |-> fe_mul(C, d.r, d.r),
          z3 |-> fe_mul(C, p.z, fe_mul(C, q.z, d.h))]

add_jacobian_v(C, s) ==
    s @@ [hhh |-> fe_mul(C, s.h, s.hh),
          v   |-> fe_mul(C, s.u1, s.hh)]

add_jacobian_result(C, s) ==
    LET t3 == fe_add(C, s.v, s.v)
        t4 == fe_sub(C, s.t2, s.hhh)
        x3 == fe_sub(C, t4, t3)
        t5 == fe_sub(C, s.v, x3)
        t6 == fe_mul(C, s.s1, s.hhh)
        t7 == fe_mul(C, s.r, t5)
        y3 == fe_sub(C, t7, t6)
    IN ProjPoint(x3, y3, s.z3)

\* add(ProjPoint, ProjPoint) of two points other than infinity whose
\* differences h and r are in d.
add_jacobian_sum(C, p, q, d) ==
    IF d.h = 0 /\ d.r = 0 THEN dbl(C, p)
    ELSE add_jacobian_result(C, add_jacobian_v(C, add_jacobian_hh(C, p, q, d)))

\* add(ProjPoint, ProjPoint), "add-1998-cmo-2", as a build without
\* assertions computes it.
add_jacobian(C, p, q) ==
    IF p.z = 0 THEN q
    ELSE IF q.z = 0 THEN p
    ELSE add_jacobian_sum(C, p, q, add_jacobian_hr(C, p, q))

\* add(ProjPoint, AffinePoint) up to h and t2, in blocks of statements.
add_mixed_z1z1(C, p) ==
    [z1z1 |-> fe_mul(C, p.z, p.z)]

add_mixed_h(C, p, q, s) ==
    LET u2     == fe_mul(C, q.x, s.z1z1)
        z1z1z1 == fe_mul(C, p.z, s.z1z1)
        s2     == fe_mul(C, q.y, z1z1z1)
    IN [h  |-> fe_sub(C, u2, p.x),
        t2 |-> fe_sub(C, s2, p.y)]

\* The statements of add(ProjPoint, AffinePoint) that follow.
add_mixed_i(C, p, s) ==
    LET t1  == fe_add(C, s.h, s.h)
        r   == fe_add(C, s.t2, s.t2)
        t10 == fe_mul(C, p.z, s.h)
    IN s @@ [i  |-> fe_mul(C, t1, t1),
             r  |-> r,
             t3 |-> fe_mul(C, r, r),
             z3 |-> fe_add(C, t10, t10)]

add_mixed_j(C, p, s) ==
    s @@ [j |-> fe_mul(C, s.h, s.i),
          v |-> fe_mul(C, p.x, s.i)]

add_mixed_result(C, p, s) ==
    LET t4 == fe_add(C, s.v, s.v)
        t5 == fe_sub(C, s.t3, s.j)
        x3 == fe_sub(C, t5, t4)
        t6 == fe_sub(C, s.v, x3)
        t7 == fe_mul(C, p.y, s.j)
        t8 == fe_add(C, t7, t7)
        t9 == fe_mul(C, s.r, t6)
        y3 == fe_sub(C, t9, t8)
    IN ProjPoint(x3, y3, s.z3)

\* add(ProjPoint, AffinePoint) of two points other than infinity whose h
\* and t2 are in s.
add_mixed_sum(C, p, s) ==
    IF s.h = 0 /\ s.t2 = 0 THEN dbl(C, p)
    ELSE add_mixed_result(C, p, add_mixed_j(C, p, add_mixed_i(C, p, s)))

\* add(ProjPoint, AffinePoint), the "madd" formula with the doubling case.
add_mixed(C, p, q) ==
    IF q = AffineInfinity THEN p
    ELSE IF p.z = 0 THEN proj_of_affine(C, q)
    ELSE add_mixed_sum(C, p, add_mixed_h(C, p, q, add_mixed_z1z1(C, p)))

\* operator==(ProjPoint, ProjPoint): the cross-multiplied coordinates agree.
proj_eq(C, p, q) ==
    LET z1z1   == fe_mul(C, p.z, p.z)
        z1z1z1 == fe_mul(C, z1z1, p.z)
        z2z2   == fe_mul(C, q.z, q.z)
        z2z2z2 == fe_mul(C, z2z2, q.z)
    IN  /\ fe_mul(C, p.x, z2z2) = fe_mul(C, q.x, z1z1)
        /\ fe_mul(C, p.y, z2z2z2) = fe_mul(C, q.y, z1z1z1)

\* A reduction loop that leaves the scalar as it is.
reduce_scalar_none(C, c) == c

\* The scalar of mul after the reduction loop: ORDER is subtracted while
\* the subtraction does not borrow.
RECURSIVE reduce_scalar(_, _)
reduce_scalar(C, c) ==
    IF c < C.ORDER THEN c ELSE reduce_scalar(C, c - C.ORDER)

\* bit_test(c, i).
bit_test(c, i) == (c \div (2 ^ i)) % 2 = 1

\* `if (bit) r = ecc::add(r, p);`
ecc_mul_add(C, r, p, bit) == IF bit THEN add_mixed(C, r, p) ELSE r

\* An iteration that tests bit i of the scalar.
ecc_mul_step_bit_i(C, r, p, c, i) ==
    ecc_mul_add(C, dbl(C, r), p, bit_test(c, i))

\* One iteration of the loop of mul: r = dbl(r), then r = add(r, p) when
\* bit i - 1 of the scalar is set.
ecc_mul_step(C, r, p, c, i) ==
    ecc_mul_add(C, dbl(C, r), p, bit_test(c, i - 1))

\* The loop of mul from bit i down to bit 1.
RECURSIVE ecc_mul_loop(_, _, _, _, _)
ecc_mul_loop(C, r, p, c, i) ==
    IF i = 0 THEN r
    ELSE CASE r.z < C.FIELD_PRIME ->
              ecc_mul_loop(C, ecc_mul_step(C, r, p, c, i), p, c, i - 1)

\* mul once the scalar is reduced.
ecc_mul_reduced(C, p, c) ==
    ecc_mul_loop(C, ProjInfinity(C), p, c, bit_width(c))

\* mul(AffinePoint, uint_type).
ecc_mul(C, p, c) == ecc_mul_reduced(C, p, reduce_scalar(C, c))

\* a | b on unsigned integers.
RECURSIVE bit_or(_, _)
bit_or(a, b) ==
    IF a = 0 THEN b
    ELSE IF b = 0 THEN a
    ELSE 2 * bit_or(a \div 2, b \div 2) + (IF a % 2 = 1 \/ b % 2 = 1 THEN 1 ELSE 0)

\* An index that swaps the roles of the two bits.
msm_index_swapped(u_bit, v_bit) ==
    2 * (IF u_bit THEN 1 ELSE 0) + (IF v_bit THEN 1 ELSE 0)

\* idx = 2 * size_t{v_bit} + size_t{u_bit}.
msm_index(u_bit, v_bit) ==
    2 * (IF v_bit THEN 1 ELSE 0) + (IF u_bit THEN 1 ELSE 0)

\* `if (idx == 0) continue; r = add(r, *points[idx]);` with the lookup table
\* {nullptr, &p, &q, &h}.
msm_add(C, r, p, q, h, idx) ==
    IF idx = 0 THEN r
    ELSE add_mixed(C, r, IF idx = 1 THEN p ELSE IF idx = 2 THEN q ELSE h)

\* One iteration of the loop of msm.
msm_step(C, r, u, p, v, q, h, i) ==
    msm_add(C, dbl(C, r), p, q, h, msm_index(bit_test(u, i - 1), bit_test(v, i - 1)))

\* The loop of msm from bit i down to bit 1.
RECURSIVE msm_loop(_, _, _, _, _, _, _, _)
msm_loop(C, r, u, p, v, q, h, i) ==
    IF i = 0 THEN r
    ELSE CASE r.z < C.FIELD_PRIME ->
              msm_loop(C, msm_step(C, r, u, p, v, q, h, i), u, p, v, q, h, i - 1)

\* msm(u, p, v, q).
msm(C, u, p, v, q) ==
    IF bit_width(bit_or(u, v)) = 0 THEN ProjInfinity(C)
    ELSE msm_loop(C, ProjInfinity(C), u, p, v, q, add_affine(C, p, q),
                  bit_width(bit_or(u, v)))

\* FieldElement::from_bytes(b): the big-endian load of the bytes, converted
\* by the constructor.
FieldElement_from_bytes(C, b) == FE(C, be_load(b))

\* AffinePoint::from_bytes(b); sizeof(FE) is NumWords bytes.  The value
\* returned is an AffinePoint.
AffinePoint_from_bytes(C, b) ==
    AffinePoint(FieldElement_from_bytes(C, subspan(b, 0, NumWords)),
                FieldElement_from_bytes(C, subspan(b, NumWords, NumWords)))

(***************************************************************************)
(* secp256r1::verify                                                       *)
(***************************************************************************)

\* secp256r1::Curve at the working width: A = FIELD_PRIME - 3, a prime group
\* order below the field prime and above half of it.
secp256r1_Curve == Curve(11, 8, 10, 7)

\* The generator secp256r1::G, a point of the curve other than infinity.
secp256r1_G == AffinePoint(FE(secp256r1_Curve, 2), FE(secp256r1_Curve, 1))

\* is_on_curve(p).
is_on_curve(C, p) ==
    fe_mul(C, p.y, p.y)
      = fe_add(C, fe_add(C, fe_mul(C, fe_mul(C, p.x, p.x), p.x),
                            fe_mul(C, FE(C, C.A), p.x)),
                  FE(C, C.B))

\* A validation that does not check the curve equation.
verify_valid_no_curve_check(C, r, s, qx, qy) ==
    /\ ~(r = 0 \/ r >= C.ORDER \/ s = 0 \/ s >= C.ORDER)
    /\ ~(qx >= C.FIELD_PRIME \/ qy >= C.FIELD_PRIME)
    /\ AffinePoint(FE(C, qx), FE(C, qy)) # AffineInfinity

\* The checks of verify before the computation: TRUE if none of them
\* returns false.
verify_valid(C, r, s, qx, qy) ==
    /\ ~(r = 0 \/ r >= C.ORDER \/ s = 0 \/ s >= C.ORDER)
    /\ ~(qx >= C.FIELD_PRIME \/ qy >= C.FIELD_PRIME)
    /\ AffinePoint(FE(C, qx), FE(C, qy)) # AffineInfinity
    /\ is_on_curve(C, AffinePoint(FE(C, qx), FE(C, qy)))

\* u1 and u2 of verify from z, r and s_inv, in the arithmetic modulo ORDER.
verify_u(n, z, r, s_inv) ==
    [u1 |-> from_mont(n, mul(n, to_mont(n, z), s_inv)),
     u2 |-> from_mont(n, mul(n, to_mont(n, r), s_inv))]

\* n, z, s_inv, u1 and u2 of verify.
verify_scalars(C, h, r, s) ==
    verify_u(ModArith(C.ORDER, NumWords), be_load(h), r,
             inv(ModArith(C.ORDER, NumWords), to_mont(ModArith(C.ORDER, NumWords), s)))

\* T1 = mul(G, u1) and T2 = mul(Q, u2) of verify.
verify_products(C, G, Q, u) ==
    {[i |-> i, T |-> ecc_mul(C, IF i = 1 THEN G ELSE Q, IF i = 1 THEN u.u1 ELSE u.u2)] :
        i \in {1, 2}}

verify_pair(ts) ==
    [T1 |-> (CHOOSE t \in ts : t.i = 1).T, T2 |-> (CHOOSE t \in ts : t.i = 2).T]

verify_multiples(C, G, Q, u) ==
    CASE u.u1 < C.ORDER /\ u.u2 < C.ORDER -> verify_pair(verify_products(C, G, Q, u))

\* assert(T2 != 0), and the assertion of the addition of T1 and T2.
verify_asserts(C, t) ==
    /\ t.T2.z # 0
    /\ add_jacobian_assert(C, t.T1, t.T2)

\* A comparison of x1 with r that leaves x1 unreduced.
verify_x1_unreduced(C, R, r) ==
    fe_value(C, R.x) = r

\* x1 of R, reduced modulo ORDER by one subtraction, compared with r.
verify_x1(C, R, r) ==
    (IF fe_value(C, R.x) >= C.ORDER THEN fe_value(C, R.x) - C.ORDER
     ELSE fe_value(C, R.x)) = r

\* The point R of verify for valid arguments.
verify_R(C, t) == to_affine(C, add_jacobian(C, t.T1, t.T2))

\* The end of verify from T1 and T2 on: the value returned, and whether the
\* assertions hold.
verify_finish(C, t, r) ==
    CASE t.T1.z < C.FIELD_PRIME /\ t.T2.z < C.FIELD_PRIME ->
        [ret |-> verify_x1(C, verify_R(C, t), r), asserts |-> verify_asserts(C, t)]

\* verify(h, r, s, qx, qy) with the truth of its assertions; h is the hash
\* as bytes.
verify_run(C, G, h, r, s, qx, qy) ==
    IF ~verify_valid(C, r, s, qx, qy) THEN [ret |-> FALSE, asserts |-> TRUE]
    ELSE verify_finish(C, verify_multiples(C, G, AffinePoint(FE(C, qx), FE(C, qy)),
                                           verify_scalars(C, h, r, s)), r)

\* verify(h, r, s, qx, qy).
verify(C, G, h, r, s, qx, qy) == verify_run(C, G, h, r, s, qx, qy).ret

(***************************************************************************)
(* state::collect_deposit_requests.  The log data are bytes of eight bits; *)
(* a 256-bit word is kept as its 32 big-endian bytes and a uint32_t as its *)
(* four big-endian bytes.                                                  *)
(***************************************************************************)

DEPOSIT_CONTRACT_ADDRESS == "DEPOSIT_CONTRACT_ADDRESS"

DEPOSIT_EVENT_SIGNATURE_HASH == "DEPOSIT_EVENT_SIGNATURE_HASH"

\* std::nullopt.
nullopt == [has_value |-> FALSE]

\* A std::optional holding v.
optional(v) == [has_value |-> TRUE, value |-> v]

\* Requests(type): the requests of a type with no data yet.
Requests(type) == [type |-> type, data |-> <<>>]

\* Requests::append(bytes).
Requests_append(requests, bytes) == [requests EXCEPT !.data = @ \o bytes]

pad_to_words(size) == ((size + 31) \div 32) * 32

WORD == 32

PUBKEY_OFFSET == WORD * 5

PUBKEY_SIZE == 48

WITHDRAWAL_OFFSET == PUBKEY_OFFSET + WORD + pad_to_words(PUBKEY_SIZE)

WITHDRAWAL_SIZE == 32

AMOUNT_OFFSET == WITHDRAWAL_OFFSET + WORD + pad_to_words(WITHDRAWAL_SIZE)

AMOUNT_SIZE == 8

SIGNATURE_OFFSET == AMOUNT_OFFSET + WORD + pad_to_words(AMOUNT_SIZE)

SIGNATURE_SIZE == 96

INDEX_OFFSET == SIGNATURE_OFFSET + WORD + pad_to_words(SIGNATURE_SIZE)

INDEX_SIZE == 8

\* The four big-endian bytes of the uint32_t n.
uint32_t(n) ==
    <<(n \div 16777216) % 256, (n \div 65536) % 256, (n \div 256) % 256, n % 256>>

EXPECTED_OFFSETS ==
    <<uint32_t(PUBKEY_OFFSET), uint32_t(WITHDRAWAL_OFFSET), uint32_t(AMOUNT_OFFSET),
      uint32_t(SIGNATURE_OFFSET), uint32_t(INDEX_OFFSET)>>

\* The bytes [pos, pos + size) of the data.
data_slice(data, pos, size) == SubSeq(data, pos + 1, pos + size)

\* A read_word_as_size that casts without the range check.
read_word_as_size_truncating(data, pos) ==
    optional(data_slice(data, pos + 28, 4))

\* read_word_as_size(pos): the word at pos as a uint32_t, or nullopt if the
\* 256-bit value is above the largest uint32_t, which is the case when one
\* of its upper 28 bytes is not zero.
read_word_as_size(data, pos) ==
    IF \E i \in 1 .. 28 : data[pos + i] # 0 THEN nullopt
    ELSE optional(data_slice(data, pos + 28, 4))

\* The loop reading the five offsets of the head: nullopt if one of the
\* words does not fit, the array of the offsets otherwise.
RECURSIVE read_offsets(_, _, _)
read_offsets(data, offsets, i) ==
    IF i = 5 THEN optional(offsets)
    ELSE IF ~read_word_as_size(data, i * WORD).has_value THEN nullopt
    ELSE read_offsets(data, Append(offsets, read_word_as_size(data, i * WORD).value), i + 1)

\* validate_size_at(offset, expected_size).
validate_size_at(data, offset, expected_size) ==
    /\ read_word_as_size(data, offset).has_value
    /\ read_word_as_size(data, offset).value = uint32_t(expected_size)

\* The five appends in an order that puts the amount before the withdrawal
\* credentials.
append_fields_amount_first(requests, data) ==
    Requests_append(Requests_append(Requests_append(Requests_append(Requests_append(
        requests,
        data_slice(data, PUBKEY_OFFSET + WORD, PUBKEY_SIZE)),
        data_slice(data, AMOUNT_OFFSET + WORD, AMOUNT_SIZE)),
        data_slice(data, WITHDRAWAL_OFFSET + WORD, WITHDRAWAL_SIZE)),
        data_slice(data, SIGNATURE_OFFSET + WORD, SIGNATURE_SIZE)),
        data_slice(data, INDEX_OFFSET + WORD, INDEX_SIZE))

\* The five appends of the fields of a log.
append_fields(requests, data) ==
    Requests_append(Requests_append(Requests_append(Requests_append(Requests_append(
        requests,
        data_slice(data, PUBKEY_OFFSET + WORD, PUBKEY_SIZE)),
        data_slice(data, WITHDRAWAL_OFFSET + WORD, WITHDRAWAL_SIZE)),
        data_slice(data, AMOUNT_OFFSET + WORD, AMOUNT_SIZE)),
        data_slice(data, SIGNATURE_OFFSET + WORD, SIGNATURE_SIZE)),
        data_slice(data, INDEX_OFFSET + WORD, INDEX_SIZE))

\* A filter that looks at the address only.
log_filtered_out_by_address(log) ==
    log.addr # DEPOSIT_CONTRACT_ADDRESS

\* The filter of the logs by the contract address and the first topic: TRUE
\* if the loop continues with the next log.
log_filtered_out(log) ==
    \/ log.addr # DEPOSIT_CONTRACT_ADDRESS
    \/ Len(log.topics) = 0
    \/ log.topics[1] # DEPOSIT_EVENT_SIGNATURE_HASH

\* A layout validation that does not look at the size of the data; the
\* reads past the end of shorter data are not modelled, longer data are
\* read as the code reads them.
log_layout_ok_any_size(data) ==
    /\ Len(data) >= INDEX_OFFSET + WORD + pad_to_words(INDEX_SIZE)
    /\ read_offsets(data, <<>>, 0).has_value
    /\ read_offsets(data, <<>>, 0).value = EXPECTED_OFFSETS
    /\ validate_size_at(data, PUBKEY_OFFSET, PUBKEY_SIZE)
    /\ validate_size_at(data, WITHDRAWAL_OFFSET, WITHDRAWAL_SIZE)
    /\ validate_size_at(data, AMOUNT_OFFSET, AMOUNT_SIZE)
    /\ validate_size_at(data, SIGNATURE_OFFSET, SIGNATURE_SIZE)
    /\ validate_size_at(data, INDEX_OFFSET, INDEX_SIZE)

\* The validation of the layout of a log that passed the filter: FALSE
\* where the code returns std::nullopt.
log_layout_ok(data) ==
    /\ Len(data) = 576
    /\ read_offsets(data, <<>>, 0).has_value
    /\ read_offsets(data, <<>>, 0).value = EXPECTED_OFFSETS
    /\ validate_size_at(data, PUBKEY_OFFSET, PUBKEY_SIZE)
    /\ validate_size_at(data, WITHDRAWAL_OFFSET, WITHDRAWAL_SIZE)
    /\ validate_size_at(data, AMOUNT_OFFSET, AMOUNT_SIZE)
    /\ validate_size_at(data, SIGNATURE_OFFSET, SIGNATURE_SIZE)
    /\ validate_size_at(data, INDEX_OFFSET, INDEX_SIZE)

\* The body of the inner loop for one log, on the optional result so far.
collect_log(result, log) ==
    IF ~result.has_value THEN nullopt
    ELSE IF log_filtered_out(log) THEN result
    ELSE IF ~log_layout_ok(log.data) THEN nullopt
    ELSE optional(append_fields(result.value, log.data))

\* The inner loop over the logs of a receipt, from log i on.
RECURSIVE collect_logs(_, _, _)
collect_logs(result, logs, i) ==
    IF i > Len(logs) THEN result
    ELSE collect_logs(collect_log(result, logs[i]), logs, i + 1)

\* The outer loop over the receipts, from receipt i on.
RECURSIVE collect_receipts(_, _, _)
collect_receipts(result, receipts, i) ==
    IF i > Len(receipts) THEN result
    ELSE collect_receipts(collect_logs(result, receipts[i].logs, 1), receipts, i + 1)

\* collect_deposit_requests(receipts).
collect_deposit_requests(receipts) ==
    collect_receipts(optional(Requests("deposit")), receipts, 1)

(***************************************************************************)
(* state::calculate_requests_hash                                          *)
(***************************************************************************)

\* The byte of a request type at the front of raw_data.
Requests_type_byte(type) ==
    CASE type = "deposit" -> 0
      [] type = "withdrawal" -> 1
      [] type = "consolidation" -> 2

\* Requests::raw_data: the type byte followed by the data.
raw_data(requests) == <<Requests_type_byte(requests.type)>> \o requests.data

\* crypto::sha256 is kept abstract: a digest of 32 bytes computed from all
\* the bytes of the message and their positions, by halving the message.
RECURSIVE sha256_compress(_, _, _)
sha256_compress(message, lo, hi) ==
    IF lo = hi THEN (message[lo] * 257 + 1) % 65521
    ELSE (sha256_compress(message, lo, (lo + hi) \div 2) * 33
          + sha256_compress(message, (lo + hi) \div 2 + 1, hi) * 5 + 1) % 65521

sha256_digest(h) ==
    <<h \div 256, h % 256>> \o [i \in 1 .. 30 |-> (h + i) % 256]

sha256(message) ==
    IF Len(message) = 0 THEN sha256_digest(5381)
    ELSE sha256_digest(sha256_compress(message, 1, Len(message)))

\* A loop body that hashes the empty requests as well.
requests_hash_step_no_skip(requests_hash_list, requests) ==
    requests_hash_list \o sha256(raw_data(requests))

\* The body of the loop of calculate_requests_hash for one requests object.
requests_hash_step(requests_hash_list, requests) ==
    IF requests.data = <<>> THEN requests_hash_list
    ELSE requests_hash_list \o sha256(raw_data(requests))

\* The loop of calculate_requests_hash from element i on.
RECURSIVE requests_hash_loop(_, _, _)
requests_hash_loop(requests_hash_list, block_requests_list, i) ==
    IF i > Len(block_requests_list) THEN requests_hash_list
    ELSE requests_hash_loop(requests_hash_step(requests_hash_list, block_requests_list[i]),
                            block_requests_list, i + 1)

\* calculate_requests_hash(block_requests_list).
calculate_requests_hash(block_requests_list) ==
    sha256(requests_hash_loop(<<>>, block_requests_list, 1))

(***************************************************************************)
(* The baseline cost tables and the requirements check of an instruction   *)
(***************************************************************************)

\* The first revision.
EVMC_FRONTIER == 0

\* The last revision.
EVMC_MAX_REVISION == 4

Revisions == EVMC_FRONTIER .. EVMC_MAX_REVISION

\* instr::undefined: the gas cost of an instruction that is not defined.
undefined == 0 - 1

\* The largest number of items of the stack.
StackLimit == 2

\* instr::Traits of one opcode: the revision it is defined since, if any,
\* the stack height it requires and the change of the stack height.
Traits(since, stack_height_required, stack_height_change) ==
    [since |-> since, stack_height_required |-> stack_height_required,
     stack_height_change |-> stack_height_change]

\* A table entry that takes the gas cost whatever the `since` of the opcode.
cost_table_entry_unmasked(traits, gas_costs, r, op) == gas_costs[r][op]

\* The entry of build_cost_tables for revision r and opcode op.
cost_table_entry(traits, gas_costs, r, op) ==
    LET since == traits[op].since
    IN  IF since.has_value /\ r >= since.value THEN gas_costs[r][op] ELSE undefined

\* build_cost_tables(): one cost table per revision.
build_cost_tables(traits, gas_costs) ==
    [r \in Revisions |->
        [op \in DOMAIN traits |-> cost_table_entry(traits, gas_costs, r, op)]]

\* get_baseline_cost_table(rev).
get_baseline_cost_table(COST_TABLES, rev) == COST_TABLES[rev]

\* The requirements check made before an instruction is executed: the gas
\* cost is looked up, then the stack height is checked, then the gas.
check_requirements(cost_table, traits, op, gas_left, stack_height) ==
    LET gas_cost == cost_table[op]
        tr == traits[op]
    IN  IF gas_cost < 0
        THEN [status |-> "EVMC_UNDEFINED_INSTRUCTION", gas_left |-> gas_left]
        ELSE IF stack_height < tr.stack_height_required
        THEN [status |-> "EVMC_STACK_UNDERFLOW", gas_left |-> gas_left]
        ELSE IF stack_height + tr.stack_height_change > StackLimit
        THEN [status |-> "EVMC_STACK_OVERFLOW", gas_left |-> gas_left]
        ELSE IF gas_left - gas_cost < 0
        THEN [status |-> "EVMC_OUT_OF_GAS", gas_left |-> gas_left - gas_cost]
        ELSE [status |-> "EVMC_SUCCESS", gas_left |-> gas_left - gas_cost]

\* The opcodes of the undefined-instruction tests.
EOFOnlyOpcodes ==
    {"OP_DUPN", "OP_SWAPN", "OP_EXCHANGE", "OP_RJUMP", "OP_RJUMPI", "OP_RJUMPV",
     "OP_CALLF", "OP_RETF", "OP_JUMPF", "OP_RETURNDATALOAD", "OP_EXTCALL",
     "OP_EXTDELEGATECALL", "OP_EXTSTATICCALL", "OP_EOFCREATE", "OP_RETURNCODE"}

(***************************************************************************)
(* BitsetSpan, CodeAnalysis and the code analysis                          *)
(***************************************************************************)

\* BitsetSpan::WORD_BITS: the bits of one word of the bitset. A word is the
\* set of the indices of its bits that are set.
WORD_BITS == WordBits

\* BitsetSpan::get_ref(index): the index of the word and the mask of the bit.
get_ref(index) ==
    [word_index |-> index \div WORD_BITS, bit_mask |-> {index % WORD_BITS}]

\* BitsetSpan::test(index): the values it can return. A read of a word that
\* is not of the array can give any value.
BitsetSpan_test(m_array, index) ==
    LET ref == get_ref(index)
    IN  IF ref.word_index \in DOMAIN m_array
        THEN {(m_array[ref.word_index] \cap ref.bit_mask) # {}}
        ELSE BOOLEAN

\* A set() that sets the bit in the first word whatever the index.
BitsetSpan_set_first_word(m_array, index) ==
    [m_array EXCEPT ![0] = @ \cup get_ref(index).bit_mask]

\* BitsetSpan::set(index).
BitsetSpan_set(m_array, index) ==
    LET ref == get_ref(index)
    IN  [m_array EXCEPT ![ref.word_index] = @ \cup ref.bit_mask]

\* CodeAnalysis(padded_code, code_size, map): the constructor for legacy code.
CodeAnalysis(padded_code, code_size, map) ==
    [m_raw_code |-> SubSeq(padded_code, 1, code_size),
     m_executable_code |-> SubSeq(padded_code, 1, code_size),
     m_padded_code |-> padded_code,
     m_jumpdest_bitset |-> map]

\* A check_jumpdest that tests the bit whatever the position.
check_jumpdest_unguarded(analysis, position) ==
    [outcomes |-> BitsetSpan_test(analysis.m_jumpdest_bitset, position),
     reads |-> {get_ref(position).word_index}]

\* CodeAnalysis::check_jumpdest(position): the values it can return and the
\* words of the bitset it reads.
check_jumpdest(analysis, position) ==
    IF position >= Len(analysis.m_raw_code)
    THEN [outcomes |-> {FALSE}, reads |-> {}]
    ELSE [outcomes |-> BitsetSpan_test(analysis.m_jumpdest_bitset, position),
          reads |-> {get_ref(position).word_index}]

OP_JUMPDEST == 91
OP_PUSH1 == 96
OP_PUSH32 == 127

\* The bytes of padding after the code.
PADDING == 33

\* The size of the immediate of an opcode.
immediate_size(op) ==
    IF op >= OP_PUSH1 /\ op <= OP_PUSH32 THEN op - OP_PUSH1 + 1 ELSE 0

\* The words of the bitset of a code of code_size bytes.
bitset_words(code_size) == (code_size + WORD_BITS - 1) \div WORD_BITS

\* The linear pass of the analysis from offset i: the immediate of a PUSH is
\* skipped, a JUMPDEST met by the pass is marked.
RECURSIVE analyze_loop(_, _, _)
analyze_loop(code, map, i) ==
    IF i >= Len(code) THEN map
    ELSE IF immediate_size(code[i + 1]) > 0
    THEN analyze_loop(code, map, i + 1 + immediate_size(code[i + 1]))
    ELSE IF code[i + 1] = OP_JUMPDEST
    THEN analyze_loop(code, BitsetSpan_set(map, i), i + 1)
    ELSE analyze_loop(code, map, i + 1)

\* analyze(code): a padded copy of the code and the map of its JUMPDESTs.
analyze(code) ==
    CodeAnalysis(code \o [i \in 1 .. PADDING |-> 0], Len(code),
                 analyze_loop(code, [w \in 0 .. bitset_words(Len(code)) - 1 |-> {}], 0))

(***************************************************************************)
(* The modexp state machine: calls of crypto::modexp on byte strings.      *)
(***************************************************************************)

\* Byte strings of at most n bytes.
ByteStrings(n) == UNION {[1 .. l -> Bytes] : l \in 0 .. n}

\* The exponents tried: zero in several encodings, one to three bytes with
\* and without leading zero bytes.
ExpInputs ==
    {<<>>, <<0>>, <<0, 0>>, <<1>>, <<2>>, <<3>>, <<0, 1>>, <<0, 3>>, <<1, 0>>,
     <<1, 1>>, <<1, 2>>, <<2, 1>>, <<3, 3>>, <<0, 2, 3>>, <<1, 0, 0>>,
     <<1, 2, 3>>, <<3, 1, 2>>, <<0, 0, 1, 0, 1>>}

\* The inputs of a call: the caller rejects a zero modulus before the call.
ModexpInputs ==
    {[op |-> "input", base |-> base, exp |-> exp, mod |-> mod] :
        base \in ByteStrings(NumWords),
        exp \in ExpInputs,
        mod \in {m \in ByteStrings(NumWords) : be_load(m) # 0}}

\* The call of crypto::modexp on the staged inputs writes the output buffer.
CallModexp ==
    /\ xcall.op = "input"
    /\ xcall' = [op |-> "modexp", base |-> xcall.base, exp |-> xcall.exp,
                 mod |-> xcall.mod,
                 output |-> modexp(xcall.base, xcall.exp, xcall.mod)]
    /\ UNCHANGED <<marith, mcall, ecall, scall>>

InitModexp ==
    /\ marith = NoArith
    /\ mcall = NoCall
    /\ xcall \in ModexpInputs
    /\ ecall = NoCall
    /\ scall = NoCall

NextModexp == CallModexp

SpecModexp == InitModexp /\ [][NextModexp]_vars

(***************************************************************************)
(* The modexp_odd state machine: the statements of modexp_odd one by one,  *)
(* with the arguments and the result of the last mul_amm call; single      *)
(* reads of a bit of an Exponent; calls of modinv_pow2.                    *)
(***************************************************************************)

\* The exponents of the runs of modexp_odd: of one to five bits, with and
\* without leading zero bytes.
OddExpInputs ==
    {<<1>>, <<2>>, <<3>>, <<0, 3>>, <<1, 0>>, <<2, 1>>, <<3, 0>>, <<3, 3>>, <<1, 0, 0>>,
     <<1, 2, 3>>}

\* The bases and the odd moduli of the runs of modexp_odd on S words: all
\* of them for NumWords words; for more words the first bases and the last,
\* and moduli from three eighths of R on.
OddBases(S) ==
    IF S = NumWords THEN 0 .. UintBase(S) - 1
    ELSE (0 .. 47) \cup {UintBase(S) - 1}

OddMods(S) ==
    IF S = NumWords THEN {m \in 1 .. UintBase(S) - 1 : m % 2 = 1}
    ELSE {(UintBase(S) \div 8) * 3 + 2 * k + 1 : k \in 0 .. 15}

InitModexpOdd ==
    /\ marith = NoArith
    /\ mcall = NoCall
    /\ ecall = NoCall
    /\ scall = NoCall
    /\ \/ \E S \in {NumWords, 2 * NumWords} :
          \E base \in OddBases(S), exp \in OddExpInputs, mod \in OddMods(S) :
            xcall = [op |-> "modexp_odd_args", S |-> S, base |-> base, exp |-> exp,
                     mod |-> mod]
       \/ \E bytes \in ByteStrings(3) :
          \E index \in 0 .. Exponent(bytes).bit_width_ - 1 :
            xcall = [op |-> "exp_bit_args", exp |-> bytes, index |-> index]
       \/ \E size \in 1 .. 2 * NumWords : \E x \in [1 .. size -> 0 .. WordBase - 1] :
          \E rsize \in 1 .. size :
            /\ x[1] % 2 = 1
            /\ xcall = [op |-> "modinv_pow2_args", x |-> x, rsize |-> rsize]

\* modinv_pow2(r, x) on an r[] of rsize words.
CallModinvPow2 ==
    /\ xcall.op = "modinv_pow2_args"
    /\ xcall' = [op |-> "modinv_pow2", x |-> xcall.x, rsize |-> xcall.rsize,
                 seed |-> inv_mod(xcall.x[1]),
                 r |-> modinv_pow2(xcall.rsize, xcall.x)]
    /\ UNCHANGED <<marith, mcall, ecall, scall>>

\* exp[index] on an Exponent made of the bytes.
CallExponentBit ==
    /\ xcall.op = "exp_bit_args"
    /\ xcall' = [op |-> "exp_bit", exp |-> xcall.exp, index |-> xcall.index,
                 ret |-> exp_bit(Exponent(xcall.exp), xcall.index)]
    /\ UNCHANGED <<marith, mcall, ecall, scall>>

\* modexp_odd up to the loop: mod_inv, base_mont, ret_mont = base_mont.
ModexpOddStart ==
    /\ xcall.op = "modexp_odd_args"
    /\ LET base_mont == (xcall.base * UintBase(xcall.S)) % xcall.mod
       IN  xcall' = [op |-> "modexp_odd_loop", at |-> "square", S |-> xcall.S,
                     base |-> xcall.base, exp |-> xcall.exp, mod |-> xcall.mod,
                     mod_inv |-> compute_mont_mod_inv(xcall.mod),
                     base_mont |-> base_mont, ret_mont |-> base_mont,
                     i |-> Exponent(xcall.exp).bit_width_ - 1,
                     last |-> NoCall]
    /\ UNCHANGED <<marith, mcall, ecall, scall>>

\* ret_mont = mul_amm(ret_mont, ret_mont, mod, mod_inv).
ModexpOddSquare ==
    /\ xcall.op = "modexp_odd_loop"
    /\ xcall.at = "square"
    /\ xcall.i # 0
    /\ LET r == mul_amm(xcall.ret_mont, xcall.ret_mont, xcall.mod, xcall.mod_inv, xcall.S)
           taken == exp_bit(Exponent(xcall.exp), xcall.i - 1)
       IN  xcall' = [xcall EXCEPT !.ret_mont = r,
                                  !.at = IF taken THEN "multiply" ELSE "square",
                                  !.i = IF taken THEN @ ELSE @ - 1,
                                  !.last = [x |-> xcall.ret_mont, y |-> xcall.ret_mont,
                                            ret |-> r]]
    /\ UNCHANGED <<marith, mcall, ecall, scall>>

\* if (exp[i - 1]) ret_mont = mul_amm(ret_mont, base_mont, mod, mod_inv).
ModexpOddMultiply ==
    /\ xcall.op = "modexp_odd_loop"
    /\ xcall.at = "multiply"
    /\ LET r == mul_amm(xcall.ret_mont, xcall.base_mont, xcall.mod, xcall.mod_inv, xcall.S)
       IN  xcall' = [xcall EXCEPT !.ret_mont = r, !.at = "square", !.i = @ - 1,
                                  !.last = [x |-> xcall.ret_mont, y |-> xcall.base_mont,
                                            ret |-> r]]
    /\ UNCHANGED <<marith, mcall, ecall, scall>>

\* After the loop: mul_amm(ret_mont, 1), the conditional subtraction, the
\* assertion and the return.
ModexpOddFinish ==
    /\ xcall.op = "modexp_odd_loop"
    /\ xcall.at = "square"
    /\ xcall.i = 0
    /\ LET r == mul_amm(xcall.ret_mont, 1, xcall.mod, xcall.mod_inv, xcall.S)
           ret == modexp_odd_reduce(r, xcall.mod)
       IN  xcall' = [op |-> "modexp_odd", S |-> xcall.S, base |-> xcall.base, exp |-> xcall.exp,
                     mod |-> xcall.mod,
                     last |-> [x |-> xcall.ret_mont, y |-> 1, ret |-> r],
                     asserts |-> ret < xcall.mod,
                     ret |-> ret]
    /\ UNCHANGED <<marith, mcall, ecall, scall>>

NextModexpOdd ==
    \/ CallExponentBit
    \/ CallModinvPow2
    \/ ModexpOddStart
    \/ ModexpOddSquare
    \/ ModexpOddMultiply
    \/ ModexpOddFinish

SpecModexpOdd == InitModexpOdd /\ [][NextModexpOdd]_vars


(***************************************************************************)
(* The ModArith state machine: an object constructed for an odd modulus,   *)
(* and the calls made on it.                                               *)
(***************************************************************************)

\* Odd moduli of the word width (inv_mod asserts that mod[0] is odd).
OddModuli == {m \in 1 .. UintBase(NumWords) - 1 : m % 2 = 1}

Reduced(M) == 0 .. M.mod_ - 1

\* A ModArith object for an odd modulus and the caller's two operands, both
\* reduced modulo it.
InitModArith ==
    /\ marith \in {ModArith(m, NumWords) : m \in OddModuli}
    /\ mcall \in {[op |-> "args", x |-> x, y |-> y] : x, y \in Reduced(marith)}
    /\ xcall = NoCall
    /\ ecall = NoCall
    /\ scall = NoCall

\* mul(x, y); t is the accumulator before the final step.
CallMul ==
    /\ mcall.op = "args"
    /\ mcall' = [op |-> "mul", x |-> mcall.x, y |-> mcall.y,
                 t |-> mul_cios(marith, mcall.x, mcall.y),
                 ret |-> mul(marith, mcall.x, mcall.y)]
    /\ UNCHANGED <<marith, xcall, ecall, scall>>

\* from_mont(mul(to_mont(x), to_mont(y))).
CallMulMont ==
    /\ mcall.op = "args"
    /\ mcall' = [op |-> "mul_mont", x |-> mcall.x, y |-> mcall.y,
                 ret |-> from_mont(marith, mul(marith, to_mont(marith, mcall.x),
                                                to_mont(marith, mcall.y)))]
    /\ UNCHANGED <<marith, xcall, ecall, scall>>

\* from_mont(to_mont(x)).
CallRoundTrip ==
    /\ mcall.op = "args"
    /\ mcall' = [op |-> "round_trip", x |-> mcall.x, mont |-> to_mont(marith, mcall.x),
                 ret |-> from_mont(marith, to_mont(marith, mcall.x))]
    /\ UNCHANGED <<marith, xcall, ecall, scall>>

\* inv(x) (inv asserts an odd modulus of at least 3).
CallInv ==
    /\ mcall.op = "args"
    /\ marith.mod_ >= 3
    /\ mcall' = [op |-> "inv", x |-> mcall.x, ret |-> inv(marith, mcall.x)]
    /\ UNCHANGED <<marith, xcall, ecall, scall>>

\* from_mont(mul(to_mont(a), inv(to_mont(a)))) for a = x.
CallInvMont ==
    /\ mcall.op = "args"
    /\ marith.mod_ >= 3
    /\ LET am == to_mont(marith, mcall.x)
           im == inv(marith, am)
       IN mcall' = [op |-> "inv_mont", x |-> mcall.x, mont |-> am, inv |-> im,
                    ret |-> from_mont(marith, mul(marith, am, im))]
    /\ UNCHANGED <<marith, xcall, ecall, scall>>

NextModArith ==
    \/ CallMul
    \/ CallMulMont
    \/ CallRoundTrip
    \/ CallInv
    \/ CallInvMont

SpecModArith == InitModArith /\ [][NextModArith]_vars

(***************************************************************************)
(* The add/sub state machine: one call of add or sub of a ModArith object  *)
(* of any modulus above zero on two reduced operands.  add and sub read    *)
(* mod_ only.                                                              *)
(***************************************************************************)

InitAddSub ==
    /\ marith \in {ModArith(m, NumWords) : m \in 1 .. UintBase(NumWords) - 1}
    /\ mcall \in {[op |-> "args", x |-> x, y |-> y] : x, y \in Reduced(marith)}
    /\ xcall = NoCall
    /\ ecall = NoCall
    /\ scall = NoCall

\* add(x, y).
CallAdd ==
    /\ mcall.op = "args"
    /\ mcall' = [op |-> "add", x |-> mcall.x, y |-> mcall.y,
                 ret |-> add(marith, mcall.x, mcall.y)]
    /\ UNCHANGED <<marith, xcall, ecall, scall>>

\* sub(x, y).
CallSub ==
    /\ mcall.op = "args"
    /\ mcall' = [op |-> "sub", x |-> mcall.x, y |-> mcall.y,
                 ret |-> sub(marith, mcall.x, mcall.y)]
    /\ UNCHANGED <<marith, xcall, ecall, scall>>

NextAddSub ==
    \/ CallAdd
    \/ CallSub

SpecAddSub == InitAddSub /\ [][NextAddSub]_vars

(***************************************************************************)
(* The inv state machine: ModArith::inv taken one iteration of its loop at *)
(* a time, on an odd modulus of at least 3 and any x of the type.  mcall   *)
(* holds the loop state (a, b, u, v).                                      *)
(***************************************************************************)

InitInvSteps ==
    /\ marith \in {ModArith(m, NumWords) : m \in OddModuli \ {1}}
    /\ mcall \in {[op |-> "inv_args", x |-> x] : x \in 0 .. UintBase(NumWords) - 1}
    /\ xcall = NoCall
    /\ ecall = NoCall
    /\ scall = NoCall

\* The assertions and the initialisation of a, b, u and v.
InvStart ==
    /\ mcall.op = "inv_args"
    /\ marith.mod_ % 2 = 1
    /\ marith.mod_ >= 3
    /\ mcall' = [op |-> "inv_loop", x |-> mcall.x,
                 st |-> [a |-> mcall.x, b |-> marith.mod_,
                         u |-> marith.r_squared_, v |-> 0]]
    /\ UNCHANGED <<marith, xcall, ecall, scall>>

\* One iteration of `while (a != 0)`.
InvIteration ==
    /\ mcall.op = "inv_loop"
    /\ mcall.st.a # 0
    /\ mcall' = [mcall EXCEPT !.st = inv_step(marith, mcall.st)]
    /\ UNCHANGED <<marith, xcall, ecall, scall>>

\* The loop is left: v, or 0 when the gcd in b is not 1.
InvReturn ==
    /\ mcall.op = "inv_loop"
    /\ mcall.st.a = 0
    /\ mcall' = [op |-> "inv_ret", x |-> mcall.x, b |-> mcall.st.b,
                 ret |-> IF mcall.st.b # 1 THEN 0 ELSE mcall.st.v]
    /\ UNCHANGED <<marith, xcall, ecall, scall>>

NextInvSteps ==
    \/ InvStart
    \/ InvIteration
    \/ InvReturn

SpecInvSteps == InitInvSteps /\ [][NextInvSteps]_vars

\* The thread that called inv keeps running: a statement that can be taken
\* is taken.
SpecInvStepsFair == SpecInvSteps /\ WF_vars(NextInvSteps)

(***************************************************************************)
(* The ecc state machine: calls of the point routines on curve points.     *)
(***************************************************************************)

\* The affine points of the curve with both coordinates in Montgomery form,
\* and the point at infinity.
CurvePoints(C) ==
    {AffinePoint(FE(C, x), FE(C, y)) : <<x, y>> \in
        {xy \in (0 .. C.FIELD_PRIME - 1) \X (0 .. C.FIELD_PRIME - 1) :
            (xy[2] * xy[2]) % C.FIELD_PRIME
              = (xy[1] * xy[1] * xy[1] + C.A * xy[1] + C.B) % C.FIELD_PRIME}}
    \cup {AffineInfinity}

\* operator-(Point): the opposite affine point.
affine_neg(C, p) == AffinePoint(p.x, fe_neg(C, p.y))

\* The point (x z^2, y z^3, z) for a Z coordinate fz in Montgomery form.
jacobian_scaled(C, p, fz) ==
    LET zz == fe_mul(C, fz, fz)
    IN ProjPoint(fe_mul(C, p.x, zz), fe_mul(C, p.y, fe_mul(C, zz, fz)), fz)

\* A Jacobian representative (x z^2, y z^3, z) of the affine point p; the
\* point at infinity is ProjPoint{} for z = 1 and another point with Z == 0
\* otherwise.
jacobian_of(C, p, z) ==
    IF p = AffineInfinity THEN ProjPoint(FE(C, z - 1), FE(C, 1), 0)
    ELSE jacobian_scaled(C, p, FE(C, z))

\* The Z coordinates of the Jacobian representatives tried: that of
\* ProjPoint(AffinePoint), and two others.
ZCoordinates(C) == {1, 2, C.FIELD_PRIME - 1}

\* The arguments of add(AffinePoint, AffinePoint): two points of a curve.
AddAffineInputs ==
    UNION {{[op |-> "add_affine_args", curve |-> C, p |-> p, q |-> q] :
               p \in CurvePoints(C), q \in CurvePoints(C)} :
           C \in Curves}

\* The arguments of add(ProjPoint, ProjPoint): Jacobian representatives of
\* two points of a curve.
AddJacobianInputs ==
    UNION {{[op |-> "add_jacobian_args", curve |-> C, p |-> p, q |-> q,
             pj |-> jacobian_of(C, p, z1), qj |-> jacobian_of(C, q, z2)] :
               p \in CurvePoints(C), q \in CurvePoints(C),
               z1 \in ZCoordinates(C), z2 \in ZCoordinates(C)} :
           C \in Curves}

\* The arguments of add(ProjPoint, AffinePoint).
AddMixedInputs ==
    UNION {{[op |-> "add_mixed_args", curve |-> C, p |-> p, q |-> q,
             pj |-> jacobian_of(C, p, z1)] :
               p \in CurvePoints(C), q \in CurvePoints(C), z1 \in ZCoordinates(C)} :
           C \in Curves}

\* The argument of dbl: a Jacobian representative of a point of a curve.
DblInputs ==
    UNION {{[op |-> "dbl_args", curve |-> C, p |-> p, pj |-> jacobian_of(C, p, z1)] :
               p \in CurvePoints(C), z1 \in 1 .. C.FIELD_PRIME - 1} :
           C \in Curves}

\* The arguments of mul: a point of a curve and a scalar of the integer type.
EccMulInputs ==
    UNION {{[op |-> "mul_args", curve |-> C, p |-> p, c |-> c] :
               p \in CurvePoints(C), c \in 0 .. UintBase(NumWords) - 1} :
           C \in Curves}

\* The additions and the doubling start from the arguments of one call.
InitEccAdd ==
    /\ marith = NoArith
    /\ mcall = NoCall
    /\ xcall = NoCall
    /\ ecall \in AddAffineInputs \cup AddJacobianInputs \cup AddMixedInputs \cup DblInputs
    /\ scall = NoCall

\* msm is called on the curves with the fewest points, one for each kind
\* of A.
MsmCurves == {C \in Curves : C.ORDER < C.FIELD_PRIME}

\* The scalars of msm: the small ones, those around the group order, and
\* the largest of the integer type.
MsmScalars(C) ==
    (0 .. 5) \cup {C.ORDER - 1, C.ORDER, C.ORDER + 1, UintBase(NumWords) - 1}

\* The arguments of msm: two scalars and two points of a curve.
MsmInputs(curves) ==
    UNION {{[op |-> "msm_args", curve |-> C, u |-> u, p |-> p, v |-> v, q |-> q] :
               u \in MsmScalars(C), p \in CurvePoints(C),
               v \in MsmScalars(C), q \in CurvePoints(C)} :
           C \in curves}

\* The scalar multiplications start from the arguments of one call.
InitEccMul ==
    /\ marith = NoArith
    /\ mcall = NoCall
    /\ xcall = NoCall
    /\ ecall \in EccMulInputs \cup MsmInputs(MsmCurves)
    /\ scall = NoCall

\* The arguments of AffinePoint::from_bytes: every encoding of the size of
\* two field elements, for every curve.
FromBytesInputs(curves) ==
    {[op |-> "from_bytes_args", curve |-> C, b |-> b] :
        C \in curves, b \in [1 .. 2 * NumWords -> Bytes]}

InitFromBytes ==
    /\ marith = NoArith
    /\ mcall = NoCall
    /\ xcall = NoCall
    /\ ecall \in FromBytesInputs(Curves)
    /\ scall = NoCall

\* AffinePoint::from_bytes(b) returns an AffinePoint for every input: the
\* caller always has a point.
CallFromBytes ==
    /\ ecall.op = "from_bytes_args"
    /\ \E r \in {AffinePoint_from_bytes(ecall.curve, ecall.b)} :
          ecall' = [op |-> "from_bytes", curve |-> ecall.curve, b |-> ecall.b,
                    has_value |-> TRUE, ret |-> r]
    /\ UNCHANGED <<marith, mcall, xcall, scall>>

NextFromBytes == CallFromBytes

SpecFromBytes == InitFromBytes /\ [][NextFromBytes]_vars

\* The hashes given to verify, as bytes: the values up to just above the
\* group order and the largest ones.
VerifyHashes(C) ==
    {be_trunc(NumWords, z) :
        z \in (0 .. C.ORDER + 1)
                 \cup {UintBase(NumWords) - 2, UintBase(NumWords) - 1}}

\* The arguments of verify: every signature in range with every public key on
\* the curve, and the values at the edges of the ranges with every pair of
\* coordinates up to the field prime and the largest one.
VerifyInputs(C) ==
    {[op |-> "verify_args", h |-> h, r |-> r, s |-> s, qx |-> fe_value(C, q.x),
      qy |-> fe_value(C, q.y)] :
        h \in VerifyHashes(C), r \in 1 .. C.ORDER - 1,
        s \in 1 .. C.ORDER - 1,
        q \in CurvePoints(C) \ {AffineInfinity}}
    \cup
    {[op |-> "verify_args", h |-> h, r |-> r, s |-> s, qx |-> qx, qy |-> qy] :
        h \in {be_trunc(NumWords, 0), be_trunc(NumWords, UintBase(NumWords) - 1)},
        r \in {0, 1, C.ORDER, UintBase(NumWords) - 1},
        s \in {0, 1, C.ORDER, UintBase(NumWords) - 1},
        qx \in (0 .. C.FIELD_PRIME) \cup {UintBase(NumWords) - 1},
        qy \in (0 .. C.FIELD_PRIME) \cup {UintBase(NumWords) - 1}}

\* verify starts from the arguments of one call.
InitVerify ==
    /\ marith = NoArith
    /\ mcall = NoCall
    /\ xcall = NoCall
    /\ ecall \in VerifyInputs(secp256r1_Curve)
    /\ scall = NoCall

\* verify(h, r, s, qx, qy) returns; in a build with assertions the program
\* is aborted instead when one of the assertions on T2 and on the addition
\* of T1 and T2 fails.
CallVerify ==
    /\ ecall.op = "verify_args"
    /\ \E C \in {secp256r1_Curve} : \E G \in {secp256r1_G} :
          \E out \in {verify_run(C, G, ecall.h, ecall.r, ecall.s, ecall.qx, ecall.qy)} :
             \/ ecall' = [op |-> "verify", h |-> ecall.h, r |-> ecall.r, s |-> ecall.s,
                          qx |-> ecall.qx, qy |-> ecall.qy, ret |-> out.ret]
             \/ /\ ~out.asserts
                /\ ecall' = [op |-> "abort", h |-> ecall.h, r |-> ecall.r, s |-> ecall.s,
                             qx |-> ecall.qx, qy |-> ecall.qy]
    /\ UNCHANGED <<marith, mcall, xcall, scall>>

NextVerify == CallVerify

SpecVerify == InitVerify /\ [][NextVerify]_vars

\* Bytes of eight bits: n bytes of value b, and n bytes counting up from b.
Fill(n, b) == [i \in 1 .. n |-> b]

Ramp(n, b) == [i \in 1 .. n |-> (b + i) % 256]

\* The ABI word of 32 bytes holding the value n < 2^32.
AbiWord(n) == Fill(28, 0) \o uint32_t(n)

\* A field of the deposit event: the word of its size, its bytes counting
\* up from b, and the zero padding up to a whole number of words.
AbiField(size, b) ==
    AbiWord(size) \o Ramp(size, b) \o Fill(pad_to_words(size) - size, 0)

\* The data of a deposit event of the expected layout whose fields count up
\* from b, b + 16, b + 32, b + 48 and b + 64.
DepositData(b) ==
    AbiWord(PUBKEY_OFFSET) \o AbiWord(WITHDRAWAL_OFFSET) \o AbiWord(AMOUNT_OFFSET)
      \o AbiWord(SIGNATURE_OFFSET) \o AbiWord(INDEX_OFFSET)
      \o AbiField(PUBKEY_SIZE, b) \o AbiField(WITHDRAWAL_SIZE, b + 16)
      \o AbiField(AMOUNT_SIZE, b + 32) \o AbiField(SIGNATURE_SIZE, b + 48)
      \o AbiField(INDEX_SIZE, b + 64)

\* The positions of the ten words the validation reads.
CheckedWords ==
    {0, WORD, 2 * WORD, 3 * WORD, 4 * WORD,
     PUBKEY_OFFSET, WITHDRAWAL_OFFSET, AMOUNT_OFFSET, SIGNATURE_OFFSET, INDEX_OFFSET}

\* Deposit data with one byte changed: in a checked word, the top byte (the
\* value grows by 2^248), the byte above the low four (by 2^32), the top of
\* the low four (by 2^24) or the lowest byte; or a byte of a field or of
\* its padding.
AlteredData ==
    {[DepositData(1) EXCEPT ![w + k] = 1] : w \in CheckedWords, k \in {1, 28, 29}}
    \cup {[DepositData(1) EXCEPT ![w + WORD] = @ + 1] : w \in CheckedWords}
    \cup {[DepositData(1) EXCEPT ![k] = 9] :
             k \in {PUBKEY_OFFSET + WORD + 1, PUBKEY_OFFSET + WORD + PUBKEY_SIZE + 1, 576}}

\* Data of other sizes: empty, short, one byte less and one byte more than
\* a deposit event, and a deposit event followed by a word.
OtherSizeData ==
    {<<>>, <<1, 2, 3>>, SubSeq(DepositData(1), 1, 575), DepositData(1) \o <<0>>,
     DepositData(1) \o AbiWord(0)}

Log(addr, topics, data) == [addr |-> addr, topics |-> topics, data |-> data]

TransactionReceipt(logs) == [logs |-> logs]

\* The topics tried: none, the deposit event hash alone, first or second, and
\* another hash.
TopicsTried ==
    {<<>>, <<DEPOSIT_EVENT_SIGNATURE_HASH>>, <<"0xdeadbeef">>,
     <<DEPOSIT_EVENT_SIGNATURE_HASH, "0xdeadbeef">>,
     <<"0xdeadbeef", DEPOSIT_EVENT_SIGNATURE_HASH>>}

\* Every log tried alone: each address and list of topics with each data.
SingleLogs ==
    {Log(addr, topics, data) :
        addr \in {DEPOSIT_CONTRACT_ADDRESS, "0x01"}, topics \in TopicsTried,
        data \in {DepositData(1), Fill(576, 254)} \cup AlteredData \cup OtherSizeData}

\* The logs combined in lists: two different deposit events, a deposit event
\* of another contract, a short log of another event, a deposit event of a
\* wrong size and one of a wrong layout.
ListedLogs ==
    {Log(DEPOSIT_CONTRACT_ADDRESS, <<DEPOSIT_EVENT_SIGNATURE_HASH>>, DepositData(1)),
     Log(DEPOSIT_CONTRACT_ADDRESS, <<DEPOSIT_EVENT_SIGNATURE_HASH, "0xdeadbeef">>,
         DepositData(101)),
     Log("0x01", <<DEPOSIT_EVENT_SIGNATURE_HASH>>, DepositData(1)),
     Log(DEPOSIT_CONTRACT_ADDRESS, <<"0xdeadbeef">>, <<1, 2, 3>>),
     Log(DEPOSIT_CONTRACT_ADDRESS, <<DEPOSIT_EVENT_SIGNATURE_HASH>>,
         SubSeq(DepositData(1), 1, 575)),
     Log(DEPOSIT_CONTRACT_ADDRESS, <<DEPOSIT_EVENT_SIGNATURE_HASH>>, Fill(576, 254))}

\* The largest number of logs in a list of receipts.
MaxLogs == 3

\* The lists of receipts: no receipt, one receipt with one log, and the lists
\* of up to MaxLogs logs divided at any place into two receipts.
ReceiptLists(max_logs) ==
    {<<>>}
    \cup {<<TransactionReceipt(<<log>>)>> : log \in SingleLogs}
    \cup UNION {UNION {{<<TransactionReceipt(SubSeq(logs, 1, cut)),
                          TransactionReceipt(SubSeq(logs, cut + 1, n))>> : cut \in 0 .. n} :
                       logs \in [1 .. n -> ListedLogs]} :
                n \in 0 .. max_logs}

CollectInputs(max_logs) ==
    {[op |-> "collect_args", receipts |-> receipts] : receipts \in ReceiptLists(max_logs)}

\* The requests objects hashed: of each type with no data, and with data of
\* one to three bytes, some differing in the type only.
RequestsTried ==
    {[type |-> "deposit", data |-> <<>>], [type |-> "withdrawal", data |-> <<>>],
     [type |-> "deposit", data |-> <<7>>], [type |-> "withdrawal", data |-> <<7>>],
     [type |-> "consolidation", data |-> <<0, 0>>],
     [type |-> "deposit", data |-> <<7, 8, 9>>]}

\* The largest number of requests objects in a list.
MaxRequests == 3

RequestsHashInputs(max_requests) ==
    {[op |-> "requests_hash_args", list |-> list] :
        list \in UNION {[1 .. n -> RequestsTried] : n \in 0 .. max_requests}}

InitRequests ==
    /\ marith = NoArith
    /\ mcall = NoCall
    /\ xcall = NoCall
    /\ ecall = NoCall
    /\ scall \in CollectInputs(MaxLogs) \cup RequestsHashInputs(MaxRequests)

CallCollectDepositRequests ==
    /\ scall.op = "collect_args"
    /\ scall' = [op |-> "collect", receipts |-> scall.receipts,
                 ret |-> collect_deposit_requests(scall.receipts)]
    /\ UNCHANGED <<marith, mcall, xcall, ecall>>

CallCalculateRequestsHash ==
    /\ scall.op = "requests_hash_args"
    /\ scall' = [op |-> "requests_hash", list |-> scall.list,
                 ret |-> calculate_requests_hash(scall.list)]
    /\ UNCHANGED <<marith, mcall, xcall, ecall>>

NextRequests ==
    \/ CallCollectDepositRequests
    \/ CallCalculateRequestsHash

SpecRequests == InitRequests /\ [][NextRequests]_vars

(***************************************************************************)
(* The instruction state machine: the requirements check of one opcode at  *)
(* one revision, with the tables of traits and of gas costs of the opcode. *)
(***************************************************************************)

\* An opcode that is not one of the EOF-only opcodes: its traits are tried
\* with every `since`.
OtherOpcodes == {"OP_PUSH0"}

\* The `since` of an opcode: none for the EOF-only opcodes.
SincesTried(op, revisions) ==
    IF op \in EOFOnlyOpcodes THEN {nullopt}
    ELSE {nullopt} \cup {optional(r) : r \in revisions}

\* The stack requirements tried: an opcode that pushes and one that pops.
StackTraitsTried == {<<0, 1>>, <<2, 0 - 1>>}

\* The gas costs tried for one opcode at one revision.
GasCostsTried == {undefined, 3}

\* The gas left tried: less than the cost and more than the cost.
GasLeftTried == {0, 5}

InitInstructions ==
    /\ marith = NoArith
    /\ mcall = NoCall
    /\ xcall = NoCall
    /\ ecall = NoCall
    /\ \E op \in EOFOnlyOpcodes \cup OtherOpcodes :
       \E since \in SincesTried(op, Revisions), st \in StackTraitsTried :
       \E row \in [Revisions -> GasCostsTried] :
       \E rev \in Revisions, gas \in GasLeftTried, h \in {0, StackLimit} :
          scall = [op |-> "execute_args", opcode |-> op,
                   traits |-> [o \in {op} |-> Traits(since, st[1], st[2])],
                   gas_costs |-> [r \in Revisions |-> [o \in {op} |-> row[r]]],
                   rev |-> rev, gas_left |-> gas, stack_height |-> h]

\* One instruction of the interpreter loop, up to its requirements check.
CallCheckRequirements ==
    /\ scall.op = "execute_args"
    /\ LET COST_TABLES == build_cost_tables(scall.traits, scall.gas_costs)
           cost_table == get_baseline_cost_table(COST_TABLES, scall.rev)
           res == check_requirements(cost_table, scall.traits, scall.opcode,
                                     scall.gas_left, scall.stack_height)
       IN  scall' = [op |-> "execute", opcode |-> scall.opcode, traits |-> scall.traits,
                     gas_costs |-> scall.gas_costs, rev |-> scall.rev,
                     gas_left |-> scall.gas_left, stack_height |-> scall.stack_height,
                     gas_cost |-> cost_table[scall.opcode], status |-> res.status]
    /\ UNCHANGED <<marith, mcall, xcall, ecall>>

NextInstructions == CallCheckRequirements

SpecInstructions == InitInstructions /\ [][NextInstructions]_vars

(***************************************************************************)
(* The code analysis state machine: a CodeAnalysis is made by analyze() or *)
(* by its constructor, then a jump destination is checked.                 *)
(***************************************************************************)

\* The largest code analysed.
MaxCodeSize == 4

\* The bytes of the codes analysed: STOP, JUMPDEST, PUSH0, PUSH1, PUSH2,
\* PUSH32 and DUP1.
CodeBytesTried == {0, OP_JUMPDEST, OP_PUSH1 - 1, OP_PUSH1, OP_PUSH1 + 1, OP_PUSH32, OP_PUSH32 + 1}

\* The positions checked for a code of code_size bytes: every offset of the
\* code, the first ones after it, the last of the padding, the first after
\* the padding and a large one.
PositionsTried(code_size) ==
    (0 .. code_size + 1) \cup {code_size + PADDING - 1, code_size + PADDING, 2147483647}

InitAnalysis ==
    /\ marith = NoArith
    /\ mcall = NoCall
    /\ xcall = NoCall
    /\ ecall = NoCall
    /\ \/ \E n \in 0 .. MaxCodeSize : \E code \in [1 .. n -> CodeBytesTried] :
            scall = [op |-> "analyze_args", code |-> code]
       \/ \E n \in 0 .. 2 : \E code \in [1 .. n -> {0, OP_JUMPDEST}] :
          \E map \in [0 .. n \div WORD_BITS -> SUBSET (0 .. WORD_BITS - 1)] :
            scall = [op |-> "construct_args", code |-> code, map |-> map]

CallAnalyze ==
    /\ scall.op = "analyze_args"
    /\ scall' = [op |-> "analysis", code |-> scall.code, by |-> "analyze",
                 analysis |-> analyze(scall.code)]
    /\ UNCHANGED <<marith, mcall, xcall, ecall>>

CallCodeAnalysis ==
    /\ scall.op = "construct_args"
    /\ scall' = [op |-> "analysis", code |-> scall.code, by |-> "constructor",
                 analysis |-> CodeAnalysis(scall.code \o [i \in 1 .. PADDING |-> 0],
                                           Len(scall.code), scall.map)]
    /\ UNCHANGED <<marith, mcall, xcall, ecall>>

CallCheckJumpdest ==
    /\ scall.op = "analysis"
    /\ \E position \in PositionsTried(Len(scall.code)) :
       \E ret \in check_jumpdest(scall.analysis, position).outcomes :
          scall' = [op |-> "check_jumpdest", code |-> scall.code, by |-> scall.by,
                    analysis |-> scall.analysis, position |-> position, ret |-> ret,
                    reads |-> check_jumpdest(scall.analysis, position).reads]
    /\ UNCHANGED <<marith, mcall, xcall, ecall>>

NextAnalysis ==
    \/ CallAnalyze
    \/ CallCodeAnalysis
    \/ CallCheckJumpdest

SpecAnalysis == InitAnalysis /\ [][NextAnalysis]_vars



CallAddAffine ==
    /\ ecall.op = "add_affine_args"
    /\ ecall' = [op |-> "add_affine", curve |-> ecall.curve, p |-> ecall.p, q |-> ecall.q,
                 ret |-> add_affine(ecall.curve, ecall.p, ecall.q)]
    /\ UNCHANGED <<marith, mcall, xcall, scall>>

\* add(ProjPoint, ProjPoint) where the assertion holds or is compiled out.
CallAddJacobian ==
    /\ ecall.op = "add_jacobian_args"
    /\ \E C \in {ecall.curve} : \E r \in {add_jacobian(C, ecall.pj, ecall.qj)} :
          ecall' = [op |-> "add_jacobian", curve |-> C, p |-> ecall.p, q |-> ecall.q,
                    pj |-> ecall.pj, qj |-> ecall.qj,
                    assertion |-> add_jacobian_assert(C, ecall.pj, ecall.qj),
                    ret |-> r, affine |-> to_affine(C, r)]
    /\ UNCHANGED <<marith, mcall, xcall, scall>>

\* add(ProjPoint, ProjPoint) in a build with assertions, when the assertion
\* fails: the program is aborted.
CallAddJacobianAbort ==
    /\ ecall.op = "add_jacobian_args"
    /\ ~add_jacobian_assert(ecall.curve, ecall.pj, ecall.qj)
    /\ ecall' = [op |-> "abort", curve |-> ecall.curve, p |-> ecall.p, q |-> ecall.q,
                 pj |-> ecall.pj, qj |-> ecall.qj]
    /\ UNCHANGED <<marith, mcall, xcall, scall>>

CallAddMixed ==
    /\ ecall.op = "add_mixed_args"
    /\ \E C \in {ecall.curve} : \E r \in {add_mixed(C, ecall.pj, ecall.q)} :
          ecall' = [op |-> "add_mixed", curve |-> C, p |-> ecall.p, q |-> ecall.q,
                    pj |-> ecall.pj, ret |-> r, affine |-> to_affine(C, r)]
    /\ UNCHANGED <<marith, mcall, xcall, scall>>

CallDbl ==
    /\ ecall.op = "dbl_args"
    /\ \E C \in {ecall.curve} : \E r \in {dbl(C, ecall.pj)} :
          ecall' = [op |-> "dbl", curve |-> C, p |-> ecall.p, pj |-> ecall.pj,
                    ret |-> r, affine |-> to_affine(C, r)]
    /\ UNCHANGED <<marith, mcall, xcall, scall>>

CallEccMul ==
    /\ ecall.op = "mul_args"
    /\ \E C \in {ecall.curve} : \E r \in {ecc_mul(C, ecall.p, ecall.c)} :
          ecall' = [op |-> "mul", curve |-> C, p |-> ecall.p, c |-> ecall.c,
                    ret |-> r, affine |-> to_affine(C, r)]
    /\ UNCHANGED <<marith, mcall, xcall, scall>>

NextEccAdd ==
    \/ CallAddAffine
    \/ CallAddJacobian
    \/ CallAddJacobianAbort
    \/ CallAddMixed
    \/ CallDbl

SpecEccAdd == InitEccAdd /\ [][NextEccAdd]_vars

(***************************************************************************)
(* The mul state machine: the reduction of the scalar, then the iterations *)
(* of the loop of mul one by one, with the accumulator that each iteration *)
(* passes to the mixed addition.                                           *)
(***************************************************************************)

InitMulSteps ==
    /\ marith = NoArith
    /\ mcall = NoCall
    /\ xcall = NoCall
    /\ scall = NoCall
    /\ \E C \in Curves : \E p \in CurvePoints(C), c \in 0 .. UintBase(NumWords) - 1 :
          ecall = [op |-> "mul_steps_args", curve |-> C, p |-> p, c |-> c]

\* mul up to the loop: the scalar is reduced, r is the point at infinity.
MulReduce ==
    /\ ecall.op = "mul_steps_args"
    /\ \E c \in {reduce_scalar(ecall.curve, ecall.c)} :
          ecall' = [op |-> "mul_loop", curve |-> ecall.curve, p |-> ecall.p,
                    c |-> ecall.c, reduced_c |-> c, r |-> ProjInfinity(ecall.curve),
                    i |-> bit_width(c), added |-> NoCall]
    /\ UNCHANGED <<marith, mcall, xcall, scall>>

\* One iteration: r = dbl(r); if (bit_test(c, i - 1)) r = add(r, p).
MulIteration ==
    /\ ecall.op = "mul_loop"
    /\ ecall.i # 0
    /\ \E C \in {ecall.curve} : \E d \in {dbl(C, ecall.r)} :
       \E bit \in {bit_test(ecall.reduced_c, ecall.i - 1)} :
       \E r \in {ecc_mul_add(C, d, ecall.p, bit)} :
          ecall' = [ecall EXCEPT !.r = r, !.i = @ - 1,
                                 !.added = IF bit THEN [op |-> "add", acc |-> d] ELSE NoCall]
    /\ UNCHANGED <<marith, mcall, xcall, scall>>

\* return r.
MulReturn ==
    /\ ecall.op = "mul_loop"
    /\ ecall.i = 0
    /\ ecall' = [op |-> "mul_steps", curve |-> ecall.curve, p |-> ecall.p, c |-> ecall.c,
                 ret |-> ecall.r]
    /\ UNCHANGED <<marith, mcall, xcall, scall>>

NextMulSteps ==
    \/ MulReduce
    \/ MulIteration
    \/ MulReturn

SpecMulSteps == InitMulSteps /\ [][NextMulSteps]_vars


CallMsm ==
    /\ ecall.op = "msm_args"
    /\ \E C \in {ecall.curve} :
          \E r \in {msm(C, ecall.u, ecall.p, ecall.v, ecall.q)} :
             ecall' = [op |-> "msm", curve |-> C, u |-> ecall.u, p |-> ecall.p,
                       v |-> ecall.v, q |-> ecall.q,
                       ret |-> r, affine |-> to_affine(C, r)]
    /\ UNCHANGED <<marith, mcall, xcall, scall>>

NextEccMul ==
    \/ CallEccMul
    \/ CallMsm

SpecEccMul == InitEccMul /\ [][NextEccMul]_vars

(***************************************************************************)
(* Reference arithmetic used to state the properties                       *)
(***************************************************************************)

RECURSIVE Gcd(_, _)
Gcd(a, b) == IF b = 0 THEN a ELSE Gcd(b, a % b)

\* base^e mod m.
RECURSIVE PowMod(_, _, _)
PowMod(base, e, m) ==
    IF e = 0 THEN 1 % m
    ELSE LET h == PowMod(base, e \div 2, m)
         IN IF e % 2 = 1 THEN (((h * h) % m) * (base % m)) % m ELSE (h * h) % m

\* R = 2^bits of the object's integer type.
MontR(M) == UintBase(M.num_words)

(***************************************************************************)
(* Properties of ModArith                                                  *)
(***************************************************************************)

\* C3: for an odd modulus m and x, y < m, mul(x, y) is the value in [0, m)
\* congruent to x*y*R^-1 modulo m, the accumulator stays below 2m so that one
\* conditional subtraction is enough, and
\* from_mont(mul(to_mont(x), to_mont(y))) = (x*y) mod m.
MulIsMontgomeryProduct ==
    /\ mcall.op = "mul" =>
          /\ mcall.t < 2 * marith.mod_
          /\ mcall.ret < marith.mod_
          /\ (mcall.ret * MontR(marith)) % marith.mod_ = (mcall.x * mcall.y) % marith.mod_
    /\ mcall.op = "mul_mont" => mcall.ret = (mcall.x * mcall.y) % marith.mod_

\* A call of mul whose accumulator overflowed the word width of UintT and
\* needed the final subtraction.
MulSubtractionTaken ==
    /\ mcall.op = "mul"
    /\ mcall.t >= MontR(marith)
    /\ mcall.ret = mcall.t - marith.mod_
    /\ mcall.x > 1 /\ mcall.y > 1

\* C4: for an odd modulus m and x < m, from_mont(to_mont(x)) = x.
MontRoundTrip ==
    mcall.op = "round_trip" => mcall.ret = mcall.x

\* A round trip of a value whose Montgomery form differs from it.
RoundTripDone ==
    /\ mcall.op = "round_trip"
    /\ mcall.x > 1
    /\ mcall.mont # mcall.x

\* C5: for an odd modulus m >= 3 and a in [1, m) coprime to m,
\* from_mont(mul(to_mont(a), inv(to_mont(a)))) = 1.
InvIsInverse ==
    (mcall.op = "inv_mont" /\ mcall.x >= 1 /\ Gcd(mcall.x, marith.mod_) = 1)
        => mcall.ret = 1

\* An inversion of a unit other than 1 modulo a composite modulus.
InvOfUnitDone ==
    /\ mcall.op = "inv_mont"
    /\ mcall.x > 1
    /\ Gcd(mcall.x, marith.mod_) = 1
    /\ \E d \in 2 .. marith.mod_ - 1 : marith.mod_ % d = 0
    /\ mcall.inv # mcall.mont

\* C6: for an odd modulus m >= 3 and x < m with gcd(x, m) # 1, inv(x) = 0.
InvOfNonUnitIsZero ==
    (mcall.op = "inv" /\ Gcd(mcall.x, marith.mod_) # 1) => mcall.ret = 0

\* An inversion of a non-zero value that shares a factor with the modulus.
InvOfNonUnitDone ==
    /\ mcall.op = "inv"
    /\ mcall.x # 0
    /\ Gcd(mcall.x, marith.mod_) # 1

(***************************************************************************)
(* Properties of modexp                                                    *)
(***************************************************************************)

\* C1: for a modulus m > 0, any base and an exponent > 0, the output is
\* base^exp mod m written in as many bytes as the modulus has, in each case
\* of the dispatch (odd, power of two, even composite).
ModexpIsPowMod ==
    (xcall.op = "modexp" /\ be_load(xcall.exp) > 0) =>
        /\ Len(xcall.output) = Len(xcall.mod)
        /\ be_load(xcall.output)
             = PowMod(be_load(xcall.base), be_load(xcall.exp), be_load(xcall.mod))

\* A call with an even composite modulus, a base above the modulus and a
\* multi-byte exponent.  (A base longer than the modulus meets the one-byte
\* moduli, which are odd or powers of two.)
ModexpEvenDone ==
    /\ xcall.op = "modexp"
    /\ modexp_case(Exponent(xcall.exp), be_load(xcall.mod)) = "even"
    /\ be_load(xcall.base) > be_load(xcall.mod)
    /\ be_load(xcall.exp) >= ByteBase
    /\ be_load(xcall.output) > 1

\* C2: when the exponent is empty or all zero bytes the output is 1 for
\* m > 1 and 0 for m = 1; for m = 1 the output is 0 for every base and
\* exponent.
ModexpTrivialCases ==
    xcall.op = "modexp" =>
        /\ be_load(xcall.exp) = 0 =>
              be_load(xcall.output) = (IF be_load(xcall.mod) > 1 THEN 1 ELSE 0)
        /\ be_load(xcall.mod) = 1 => be_load(xcall.output) = 0

\* A call with a non-empty all-zero exponent and a base that is a multiple
\* of the modulus m > 1.
ModexpZeroExpDone ==
    /\ xcall.op = "modexp"
    /\ Len(xcall.exp) > 0
    /\ be_load(xcall.exp) = 0
    /\ be_load(xcall.mod) > 1
    /\ be_load(xcall.base) % be_load(xcall.mod) = 0

(***************************************************************************)
(* The group law of the curve on plain coordinates, for reference          *)
(***************************************************************************)

\* The point at infinity of the group.
GroupZero == [inf |-> TRUE, x |-> 0, y |-> 0]

\* The group element an AffinePoint stands for.
GroupPoint(C, p) ==
    IF p = AffineInfinity THEN GroupZero
    ELSE [inf |-> FALSE, x |-> fe_value(C, p.x), y |-> fe_value(C, p.y)]

\* The inverse of a unit a modulo the prime p.
FieldInverse(a, p) == CHOOSE b \in 1 .. p - 1 : (a * b) % p = 1

\* a - b modulo p.
FieldSub(a, b, p) == (a + p - (b % p)) % p

\* The chord-and-tangent sum of two group elements.
GroupAdd(C, P, Q) ==
    LET p == C.FIELD_PRIME
    IN IF P.inf THEN Q
       ELSE IF Q.inf THEN P
       ELSE IF P.x = Q.x /\ (P.y + Q.y) % p = 0 THEN GroupZero
       ELSE LET num == IF P.x = Q.x THEN (3 * P.x * P.x + C.A) % p
                       ELSE FieldSub(Q.y, P.y, p)
                den == IF P.x = Q.x THEN (2 * P.y) % p ELSE FieldSub(Q.x, P.x, p)
                s   == (num * FieldInverse(den, p)) % p
                x3  == FieldSub(s * s, P.x + Q.x, p)
                y3  == FieldSub(s * FieldSub(P.x, x3, p), P.y, p)
            IN [inf |-> FALSE, x |-> x3, y |-> y3]

\* The multiple [k]P by repeated addition.
RECURSIVE GroupMul(_, _, _)
GroupMul(C, P, k) ==
    IF k = 0 THEN GroupZero ELSE GroupAdd(C, GroupMul(C, P, k - 1), P)

(***************************************************************************)
(* Properties of the curve routines                                        *)
(***************************************************************************)

\* C7: for every affine point P of the curve, the point at infinity
\* included, and every scalar c of the integer type, to_affine(mul(P, c)) is
\* the group multiple [c mod ORDER]P; mul(P, 0), mul(P, ORDER) and
\* mul(infinity, c) are the point at infinity.
EccMulIsGroupMultiple ==
    ecall.op = "mul" =>
        /\ GroupPoint(ecall.curve, ecall.affine)
             = GroupMul(ecall.curve, GroupPoint(ecall.curve, ecall.p),
                        ecall.c % ecall.curve.ORDER)
        /\ (ecall.c = 0 \/ ecall.c = ecall.curve.ORDER \/ ecall.p = AffineInfinity)
             => (ecall.ret.z = 0 /\ ecall.affine = AffineInfinity)

\* A multiplication of a curve point by a scalar above the group order whose
\* result is a point other than P and infinity.
EccMulReducedDone ==
    /\ ecall.op = "mul"
    /\ ecall.p # AffineInfinity
    /\ ecall.c > ecall.curve.ORDER
    /\ ecall.c % ecall.curve.ORDER > 1
    /\ ecall.affine # AffineInfinity
    /\ ecall.affine # ecall.p

\* C8: for every affine point P of the curve, the point at infinity
\* included, add(P, infinity) and add(infinity, P) are P in the affine, the
\* Jacobian and the mixed addition.
AddInfinityIsIdentity ==
    /\ ecall.op = "add_affine" =>
          /\ ecall.q = AffineInfinity => ecall.ret = ecall.p
          /\ ecall.p = AffineInfinity => ecall.ret = ecall.q
    /\ ecall.op = "add_jacobian" =>
          /\ ecall.q = AffineInfinity =>
                (ecall.affine = ecall.p /\ (ecall.ret.z = 0 <=> ecall.p = AffineInfinity))
          /\ ecall.p = AffineInfinity =>
                (ecall.affine = ecall.q /\ (ecall.ret.z = 0 <=> ecall.q = AffineInfinity))
    /\ ecall.op = "add_mixed" =>
          /\ ecall.q = AffineInfinity =>
                (ecall.affine = ecall.p /\ (ecall.ret.z = 0 <=> ecall.p = AffineInfinity))
          /\ ecall.p = AffineInfinity =>
                (ecall.affine = ecall.q /\ (ecall.ret.z = 0 <=> ecall.q = AffineInfinity))

\* A mixed addition of the point at infinity, in a representative other
\* than ProjPoint{}, and a point of the curve.
AddInfinityDone ==
    /\ ecall.op = "add_mixed"
    /\ ecall.p = AffineInfinity
    /\ ecall.pj # ProjInfinity(ecall.curve)
    /\ ecall.q # AffineInfinity

\* C9: for every point P of the curve other than infinity, add(P, -P) is
\* the point at infinity: {0, 0} from the affine addition, a point with
\* Z == 0 from the Jacobian and the mixed addition.
AddOppositeIsInfinity ==
    (/\ ecall.op \in {"add_affine", "add_jacobian", "add_mixed"}
     /\ ecall.p # AffineInfinity
     /\ ecall.q = affine_neg(ecall.curve, ecall.p)) =>
        IF ecall.op = "add_affine" THEN ecall.ret = AffineInfinity
        ELSE ecall.ret.z = 0 /\ ecall.affine = AffineInfinity

\* A Jacobian addition of opposite points in representatives with
\* different Z.
AddOppositeDone ==
    /\ ecall.op = "add_jacobian"
    /\ ecall.p # AffineInfinity
    /\ ecall.q = affine_neg(ecall.curve, ecall.p)
    /\ ecall.pj.z # ecall.qj.z
    /\ ecall.pj.x # ecall.qj.x

MsmIsSumOfMultiples ==
    ecall.op = "msm" =>
        GroupPoint(ecall.curve, ecall.affine)
          = GroupAdd(ecall.curve,
                     GroupMul(ecall.curve, GroupPoint(ecall.curve, ecall.p), ecall.u),
                     GroupMul(ecall.curve, GroupPoint(ecall.curve, ecall.q), ecall.v))

\* An msm of two different points, not opposite, with scalars that select
\* each of P, Q and P + Q in some iteration.
MsmAllTableEntriesDone ==
    /\ ecall.op = "msm"
    /\ ecall.p # AffineInfinity
    /\ ecall.q \notin {AffineInfinity, ecall.p, affine_neg(ecall.curve, ecall.p)}
    /\ ecall.u = 5
    /\ ecall.v = 3
    /\ ecall.affine # AffineInfinity

\* The public key of a call of verify as an element of the group, when its
\* coordinates are those of a point of the curve.
VerifyQ == [inf |-> FALSE, x |-> ecall.qx, y |-> ecall.qy]

\* The checks of the signature verification on plain integers.
VerifyRangesOk ==
    /\ ecall.r \in 1 .. secp256r1_Curve.ORDER - 1
    /\ ecall.s \in 1 .. secp256r1_Curve.ORDER - 1
    /\ ecall.qx < secp256r1_Curve.FIELD_PRIME
    /\ ecall.qy < secp256r1_Curve.FIELD_PRIME
    /\ <<ecall.qx, ecall.qy>> # <<0, 0>>

VerifyOnCurve ==
    (ecall.qy * ecall.qy) % secp256r1_Curve.FIELD_PRIME
      = (ecall.qx * ecall.qx * ecall.qx + (secp256r1_Curve.FIELD_PRIME - 3) * ecall.qx
           + secp256r1_Curve.B) % secp256r1_Curve.FIELD_PRIME

\* R = u1 G + u2 Q with u1 = z / s mod N and u2 = r / s mod N, by the group law.
VerifyR ==
    GroupAdd(secp256r1_Curve,
             GroupMul(secp256r1_Curve, GroupPoint(secp256r1_Curve, secp256r1_G),
                      (be_load(ecall.h) * FieldInverse(ecall.s, secp256r1_Curve.ORDER))
                         % secp256r1_Curve.ORDER),
             GroupMul(secp256r1_Curve, VerifyQ,
                      (ecall.r * FieldInverse(ecall.s, secp256r1_Curve.ORDER))
                         % secp256r1_Curve.ORDER))

\* C12: verify returns false, for any hash, whenever r or s is 0 or at
\* least ORDER, or qx or qy is at least FIELD_PRIME, or (qx, qy) is (0, 0), or
\* qy^2 differs from qx^3 - 3 qx + B modulo FIELD_PRIME.
VerifyRejectsInvalid ==
    (ecall.op = "verify" /\ ~(VerifyRangesOk /\ VerifyOnCurve)) => ecall.ret = FALSE

\* A verification of a signature in range with a public key in range that is
\* not on the curve.
VerifyOffCurveDone ==
    /\ ecall.op = "verify"
    /\ VerifyRangesOk
    /\ ~VerifyOnCurve
    /\ ecall.ret = FALSE

\* C13: for arguments that pass the validation and every hash z, z >= ORDER
\* included, verify returns true if and only if R = u1 G + u2 Q, with
\* u1 = z / s mod N and u2 = r / s mod N, is not the point at infinity and
\* R.x mod N = r.
VerifyAcceptsIffRxIsR ==
    (ecall.op = "verify" /\ VerifyRangesOk /\ VerifyOnCurve) =>
        (ecall.ret = TRUE <=>
            (~VerifyR.inf /\ VerifyR.x % secp256r1_Curve.ORDER = ecall.r))

\* An accepted signature with a hash of at least ORDER and an x coordinate of
\* R of at least ORDER.
VerifyAcceptedReducedDone ==
    /\ ecall.op = "verify"
    /\ VerifyRangesOk
    /\ VerifyOnCurve
    /\ ecall.ret = TRUE
    /\ be_load(ecall.h) >= secp256r1_Curve.ORDER
    /\ VerifyR.x >= secp256r1_Curve.ORDER

\* C14: decoding a point encoding with AffinePoint::from_bytes yields no
\* point whenever the x or the y coordinate, read as a big-endian integer,
\* is at least FIELD_PRIME.
FromBytesRejectsUnreduced ==
    (/\ ecall.op = "from_bytes"
     /\ \/ be_load(SubSeq(ecall.b, 1, NumWords)) >= ecall.curve.FIELD_PRIME
        \/ be_load(SubSeq(ecall.b, NumWords + 1, 2 * NumWords)) >= ecall.curve.FIELD_PRIME)
    => ~ecall.has_value

(***************************************************************************)
(* Properties of the deposit requests                                      *)
(***************************************************************************)

\* The logs of a list of receipts, in receipt order and then log order.
RECURSIVE FlatLogs(_)
FlatLogs(receipts) ==
    IF Len(receipts) = 0 THEN <<>>
    ELSE receipts[1].logs \o FlatLogs(Tail(receipts))

\* A log of the deposit contract whose first topic is the deposit event hash.
IsDepositEvent(log) ==
    /\ log.addr = DEPOSIT_CONTRACT_ADDRESS
    /\ log.topics # <<>>
    /\ Head(log.topics) = DEPOSIT_EVENT_SIGNATURE_HASH

\* The 32 bytes at pos are the 256-bit big-endian integer n, for n < 65536.
WordIs(data, pos, n) ==
    /\ \A i \in 1 .. 30 : data[pos + i] = 0
    /\ data[pos + 31] * 256 + data[pos + 32] = n

\* The five head words are 160, 256, 320, 384, 512 and the length words at
\* those offsets are 48, 32, 8, 96, 8.
LayoutExact(data) ==
    /\ WordIs(data, 0, 160) /\ WordIs(data, 32, 256) /\ WordIs(data, 64, 320)
    /\ WordIs(data, 96, 384) /\ WordIs(data, 128, 512)
    /\ WordIs(data, 160, 48) /\ WordIs(data, 256, 32) /\ WordIs(data, 320, 8)
    /\ WordIs(data, 384, 96) /\ WordIs(data, 512, 8)

\* data[192..240) || data[288..320) || data[352..360) || data[416..512) ||
\* data[544..552).
DepositFields(data) ==
    SubSeq(data, 193, 240) \o SubSeq(data, 289, 320) \o SubSeq(data, 353, 360)
      \o SubSeq(data, 417, 512) \o SubSeq(data, 545, 552)

\* The fields of the deposit events among the logs, in order.
RECURSIVE ExpectedPayload(_)
ExpectedPayload(logs) ==
    IF Len(logs) = 0 THEN <<>>
    ELSE (IF IsDepositEvent(Head(logs)) THEN DepositFields(Head(logs).data) ELSE <<>>)
           \o ExpectedPayload(Tail(logs))

\* The positions of the deposit events in the logs of the call.
DepositEventsOfCall ==
    {i \in 1 .. Len(FlatLogs(scall.receipts)) : IsDepositEvent(FlatLogs(scall.receipts)[i])}

\* C15: a log of the deposit contract whose first topic is the deposit
\* event hash and whose data length is not 576 makes collect_deposit_requests
\* return no result for the whole list of receipts, whatever comes before or
\* after it.
WrongSizeFailsCollection ==
    (/\ scall.op = "collect"
     /\ \E i \in DepositEventsOfCall : Len(FlatLogs(scall.receipts)[i].data) # 576)
    => ~scall.ret.has_value

\* A deposit event of a wrong size between two deposit events of the expected
\* layout, in a call that returned no result.
WrongSizeBetweenValidDone ==
    /\ scall.op = "collect"
    /\ Len(FlatLogs(scall.receipts)) = 3
    /\ DepositEventsOfCall = {1, 2, 3}
    /\ Len(FlatLogs(scall.receipts)[2].data) # 576
    /\ LayoutExact(FlatLogs(scall.receipts)[1].data)
    /\ LayoutExact(FlatLogs(scall.receipts)[3].data)
    /\ ~scall.ret.has_value

\* C16: logs of another address, without topics or with another first topic
\* are skipped before any layout check: the collection fails only if some
\* deposit event is of a wrong size or layout, the skipped logs add no bytes
\* to the payload, and if every log is skipped the result is a deposit
\* request with empty data.
SkippedLogsAreIgnored ==
    scall.op = "collect" =>
        /\ ~scall.ret.has_value =>
              \E i \in DepositEventsOfCall :
                 \/ Len(FlatLogs(scall.receipts)[i].data) # 576
                 \/ ~LayoutExact(FlatLogs(scall.receipts)[i].data)
        /\ scall.ret.has_value =>
              Len(scall.ret.value.data) = 192 * Cardinality(DepositEventsOfCall)
        /\ DepositEventsOfCall = {} =>
              scall.ret = [has_value |-> TRUE, value |-> [type |-> "deposit", data |-> <<>>]]

\* A call that returned a payload for a list with a deposit event and with
\* skipped logs, one of them with data of another size.
SkippedLogsDone ==
    /\ scall.op = "collect"
    /\ scall.ret.has_value
    /\ DepositEventsOfCall # {}
    /\ \E i \in (1 .. Len(FlatLogs(scall.receipts))) \ DepositEventsOfCall :
          /\ FlatLogs(scall.receipts)[i].addr = DEPOSIT_CONTRACT_ADDRESS
          /\ Len(FlatLogs(scall.receipts)[i].data) # 576

\* C17: a deposit event of 576 bytes is accepted only if its five head words
\* are exactly 160, 256, 320, 384, 512 and the length words at those offsets
\* exactly 48, 32, 8, 96, 8, each as a full 256-bit big-endian integer; any
\* other one makes the whole collection fail.
InexactLayoutFailsCollection ==
    (/\ scall.op = "collect"
     /\ \E i \in DepositEventsOfCall :
           /\ Len(FlatLogs(scall.receipts)[i].data) = 576
           /\ ~LayoutExact(FlatLogs(scall.receipts)[i].data))
    => ~scall.ret.has_value

\* A rejected deposit event of 576 bytes one of whose checked words is the
\* expected value plus 2^32: its low four bytes are those of the expected
\* value.
WordAboveUint32Done ==
    /\ scall.op = "collect"
    /\ ~scall.ret.has_value
    /\ Len(FlatLogs(scall.receipts)) = 1
    /\ DepositEventsOfCall = {1}
    /\ Len(FlatLogs(scall.receipts)[1].data) = 576
    /\ FlatLogs(scall.receipts)[1].data[28] = 1
    /\ LayoutExact([FlatLogs(scall.receipts)[1].data EXCEPT ![28] = 0])

\* C18: on success the payload is the concatenation, over the accepted logs
\* in receipt order and then log order, of data[192..240), data[288..320),
\* data[352..360), data[416..512) and data[544..552) of each log, so its
\* length is 192 times the number of accepted logs.
PayloadIsConcatenationOfFields ==
    (scall.op = "collect" /\ scall.ret.has_value) =>
        /\ scall.ret.value.data = ExpectedPayload(FlatLogs(scall.receipts))
        /\ Len(scall.ret.value.data) = 192 * Cardinality(DepositEventsOfCall)

\* A payload of two accepted logs with different fields in two receipts,
\* with a skipped log as well.
PayloadOfTwoReceiptsDone ==
    /\ scall.op = "collect"
    /\ scall.ret.has_value
    /\ Len(scall.receipts) = 2
    /\ Len(FlatLogs(scall.receipts)) = 3
    /\ Cardinality(DepositEventsOfCall) = 2
    /\ \A r \in 1 .. 2 : \E j \in 1 .. Len(scall.receipts[r].logs) :
          IsDepositEvent(scall.receipts[r].logs[j])
    /\ \E i, j \in DepositEventsOfCall :
          FlatLogs(scall.receipts)[i].data # FlatLogs(scall.receipts)[j].data

\* A requests object with data.
HasData(requests) == requests.data # <<>>

\* The concatenation of the hashes of the bytes of the requests objects of a
\* list, in order.
RECURSIVE ConcatHashes(_)
ConcatHashes(list) ==
    IF Len(list) = 0 THEN <<>>
    ELSE sha256(raw_data(Head(list))) \o ConcatHashes(Tail(list))

\* C19: calculate_requests_hash(list) is the SHA-256 of the concatenation,
\* in list order, of the SHA-256 hashes of the requests that are not empty:
\* it depends on the list without its empty requests only, and is the
\* SHA-256 of the empty string when no request has data.
RequestsHashSkipsEmpty ==
    scall.op = "requests_hash" =>
        /\ scall.ret = sha256(ConcatHashes(SelectSeq(scall.list, HasData)))
        /\ (\A i \in 1 .. Len(scall.list) : ~HasData(scall.list[i])) =>
              scall.ret = sha256(<<>>)

\* The hash of a list with an empty requests object between two with data.
RequestsHashWithEmptyDone ==
    /\ scall.op = "requests_hash"
    /\ Len(scall.list) = 3
    /\ HasData(scall.list[1])
    /\ ~HasData(scall.list[2])
    /\ HasData(scall.list[3])
    /\ scall.ret # sha256(<<>>)

\* The traits of the opcode of the last requirements check.
ExecutedTraits == scall.traits[scall.opcode]

\* The opcode has no `since`, or the revision is earlier than its `since`.
NotYetDefined ==
    \/ ~ExecutedTraits.since.has_value
    \/ scall.rev < ExecutedTraits.since.value

\* C20: when the cost table entry of the opcode at the revision is undefined,
\* which it is whenever the opcode has no `since` or the revision is earlier
\* than its `since`, the instruction ends with EVMC_UNDEFINED_INSTRUCTION,
\* whatever the stack height and the gas left; so it does for every EOF-only
\* opcode at the last revision.
UndefinedCostIsUndefinedInstruction ==
    scall.op = "execute" =>
        /\ NotYetDefined => scall.gas_cost = undefined
        /\ scall.gas_cost = undefined => scall.status = "EVMC_UNDEFINED_INSTRUCTION"
        /\ (scall.opcode \in EOFOnlyOpcodes /\ scall.rev = EVMC_MAX_REVISION) =>
              scall.status = "EVMC_UNDEFINED_INSTRUCTION"

\* An EOF-only opcode was checked at the last revision with the stack items
\* and the gas it asks for, and with a gas cost in the table of gas costs.
EOFOpcodeAtMaxRevisionDone ==
    /\ scall.op = "execute"
    /\ scall.opcode = "OP_EXTCALL"
    /\ scall.rev = EVMC_MAX_REVISION
    /\ scall.gas_costs[scall.rev][scall.opcode] # undefined
    /\ scall.stack_height >= ExecutedTraits.stack_height_required
    /\ scall.gas_left >= scall.gas_costs[scall.rev][scall.opcode]
    /\ scall.status = "EVMC_UNDEFINED_INSTRUCTION"

\* The offsets whose bit is set in a bitset.
MarkedOffsets(m_array) ==
    UNION {{w * WORD_BITS + b : b \in m_array[w]} : w \in DOMAIN m_array}

\* C21: check_jumpdest(d) returns true exactly when d is below the size of
\* the raw code and the bit of d is set in the bitset; for d at or above the
\* size of the raw code it returns false and reads no word of the bitset.
JumpdestAcceptedIffInCodeAndMarked ==
    scall.op = "check_jumpdest" =>
        /\ scall.ret <=> (/\ scall.position < Len(scall.analysis.m_raw_code)
                          /\ scall.position \in
                                MarkedOffsets(scall.analysis.m_jumpdest_bitset))
        /\ scall.position >= Len(scall.analysis.m_raw_code) =>
              (~scall.ret /\ scall.reads = {})

\* A position at or above the size of the code whose bit is set in the
\* bitset was checked and refused.
MarkedPositionAfterCodeDone ==
    /\ scall.op = "check_jumpdest"
    /\ scall.position >= Len(scall.analysis.m_raw_code)
    /\ scall.position \in MarkedOffsets(scall.analysis.m_jumpdest_bitset)
    /\ ~scall.ret

\* Offset i of the code is where the linear scan from offset 0 meets an
\* opcode: offset 0, or the offset after an opcode met and its immediate.
RECURSIVE IsOpcodeOffset(_, _)
IsOpcodeOffset(code, i) ==
    \/ i = 0
    \/ \E p \in 0 .. i - 1 :
          /\ p + 1 + (IF code[p + 1] \in 96 .. 127 THEN code[p + 1] - 95 ELSE 0) = i
          /\ IsOpcodeOffset(code, p)

\* C22: after analyze(code), offset i < code.len() is marked exactly when
\* code[i] is 0x5B and i is not an immediate byte of a PUSH met by the scan
\* from offset 0; nothing is marked at or after the end of the code.
JumpdestsAreOpcodesOutsidePushData ==
    (scall.op = "analysis" /\ scall.by = "analyze") =>
        /\ \A i \in 0 .. Len(scall.code) - 1 :
              i \in MarkedOffsets(scall.analysis.m_jumpdest_bitset) <=>
                (scall.code[i + 1] = 91 /\ IsOpcodeOffset(scall.code, i))
        /\ \A i \in MarkedOffsets(scall.analysis.m_jumpdest_bitset) : i < Len(scall.code)
        /\ scall.analysis.m_raw_code = scall.code
        /\ scall.analysis.m_executable_code = scall.code

\* A code was analysed that has a JUMPDEST in the immediate of a PUSH1, a
\* JUMPDEST after it, and whose last byte is a PUSH32 without its immediate.
PushDataAndTruncatedPushDone ==
    /\ scall.op = "analysis"
    /\ scall.by = "analyze"
    /\ scall.code = <<96, 91, 91, 127>>
    /\ MarkedOffsets(scall.analysis.m_jumpdest_bitset) = {2}

\* The statements of modexp_odd taken one by one return what modexp_odd
\* returns.
ModexpOddStepsAgree ==
    xcall.op = "modexp_odd" =>
        xcall.ret = modexp_odd(xcall.base, Exponent(xcall.exp), xcall.mod, xcall.S)

\* C23: for an exponent of bit width w > 0 and 0 <= i < w, exp[i] is the bit
\* of the exponent at index i counted from the most significant bit.
ExponentBitCountsFromTop ==
    xcall.op = "exp_bit" =>
        LET w == Exponent(xcall.exp).bit_width_
        IN  xcall.ret = ((be_load(xcall.exp) \div (2 ^ (w - 1 - xcall.index))) % 2 = 1)

\* C24: every mul_amm(x, y) of modexp_odd returns a value congruent to
\* x * y / R modulo the modulus, in [0, 2 * mod).
MulAmmBelowTwiceMod ==
    (xcall.op \in {"modexp_odd_loop", "modexp_odd"} /\ xcall.last # NoCall) =>
        /\ (xcall.last.ret * UintBase(xcall.S)) % xcall.mod
              = (xcall.last.x * xcall.last.y) % xcall.mod
        /\ xcall.last.ret < 2 * xcall.mod

\* C26: the last mul_amm(ret_mont, 1) of modexp_odd returns a value below
\* 2 * mod, the value returned is below mod and the assertion holds.
ModexpOddFinalBelowTwiceMod ==
    xcall.op = "modexp_odd" =>
        /\ xcall.last.ret < 2 * xcall.mod
        /\ xcall.ret < xcall.mod
        /\ xcall.asserts

\* A run of modexp_odd ended after its last mul_amm returned the modulus
\* itself, for an argument at or above the modulus.
ModexpOddFinalReducedDone ==
    /\ xcall.op = "modexp_odd"
    /\ xcall.last.x >= xcall.mod
    /\ xcall.last.ret >= xcall.mod
    /\ xcall.mod > 1
    /\ xcall.ret < xcall.mod

\* C25: in add(ProjPoint, ProjPoint) of two points of the curve other than
\* infinity, r == 0 implies h == 0: the assertion `r != 0 || h == 0` holds.
AddJacobianAssertionNeverFails ==
    (/\ ecall.op = "add_jacobian"
     /\ ecall.pj.z # 0
     /\ ecall.qj.z # 0) =>
        LET d == add_jacobian_hr(ecall.curve, ecall.pj, ecall.qj)
        IN  d.r = 0 => d.h = 0

\* The iterations of mul taken one by one return what mul returns.
MulStepsAgree ==
    ecall.op = "mul_steps" => ecall.ret = ecc_mul(ecall.curve, ecall.p, ecall.c)

\* The accumulator of the last iteration is the point p, by operator== or by
\* the test of the doubling case of the mixed addition.
AddedAccumulatorIsP ==
    LET C == ecall.curve
        acc == ecall.added.acc
        s == add_mixed_h(C, acc, ecall.p, add_mixed_z1z1(C, acc))
    IN  \/ proj_eq(C, acc, proj_of_affine(C, ecall.p))
        \/ (acc.z # 0 /\ s.h = 0 /\ s.t2 = 0)

\* C27: in mul(P, c) for a curve point P other than infinity, the accumulator
\* that an iteration passes to the mixed addition is never equal to P: the
\* doubling case of the mixed addition is not reached.
MulNeverAddsEqualPoint ==
    (/\ ecall.op = "mul_loop"
     /\ ecall.added # NoCall
     /\ ecall.p # AffineInfinity) => ~AddedAccumulatorIsP

\* An iteration after the first additions passed an accumulator other than
\* infinity to the mixed addition, for a scalar at or above ORDER + 2.
MulAddAfterReductionDone ==
    /\ ecall.op = "mul_loop"
    /\ ecall.added # NoCall
    /\ ecall.p # AffineInfinity
    /\ ecall.added.acc.z # 0
    /\ ecall.c >= ecall.curve.ORDER + 2
    /\ ecall.i = 0

\* C28: for an odd x[] and 1 <= n <= |x|, modinv_pow2 leaves in the n words
\* of r[] the inverse of x[] modulo 2^(n words), from a one-word seed that is
\* the inverse of x[0] modulo one word.
ModinvPow2IsInverse ==
    xcall.op = "modinv_pow2" =>
        /\ Len(xcall.r) = xcall.rsize
        /\ \A i \in 1 .. Len(xcall.r) : xcall.r[i] \in 0 .. WordBase - 1
        /\ (xcall.seed * xcall.x[1]) % WordBase = 1
        /\ ((span_value(xcall.x) % UintBase(xcall.rsize)) * span_value(xcall.r))
              % UintBase(xcall.rsize) = 1

\* modinv_pow2 was called for three words of result on an x[] of four words
\* whose inverse is not the seed.
ModinvPow2ThreeWordsDone ==
    /\ xcall.op = "modinv_pow2"
    /\ xcall.rsize = 3
    /\ Len(xcall.x) = 4
    /\ xcall.r[2] # 0
    /\ xcall.r[3] # 0

InvStepsAgree ==
    mcall.op = "inv_ret" => mcall.ret = inv(marith, mcall.x)

\* C30: for every odd modulus of at least 3 and every x of the type, the
\* loop of inv is left and inv returns.
InvTerminates == <>(mcall.op = "inv_ret")

\* inv returned 0 for an x above the modulus that shares a factor with it.
InvOfUnreducedNotInvertibleDone ==
    /\ mcall.op = "inv_ret"
    /\ mcall.x > marith.mod_
    /\ mcall.b > 1
    /\ mcall.ret = 0

====
